---- MODULE Spec2Model ----
(***************************************************************************)
(* State-machine model of the coupler plugin framework's real-time core:   *)
(*   - the Parameter Channel of the CLAP adapter (ParamValues set / poll   *)
(*     between the main thread and the audio thread),                      *)
(*   - the shared-value Dirty-Set flow of the VST3 wrapper,                *)
(*   - split_at_events as driven by GainProcessor::process,                *)
(*   - the aliasing-safe Buffer Router of the VST3 wrapper.                *)
(* Each subsystem has its own specification; the variables of the other    *)
(* subsystems stay at their initial value under it.                        *)
(***************************************************************************)
EXTENDS Integers, Sequences, FiniteSets, TLC

(* ------------------------------ bounds --------------------------------- *)
\* number of parameters of the plugin (info.params.len())
NParams == 2
\* host calls (flush, process, activate, ...) in one behaviour
MaxCalls == 4
\* calls the host and the editor make to the VST3 wrapper
MaxWCalls == 3
\* largest sample offset of a host parameter point
MaxOffset == 1
\* largest maxSamplesPerBlock the host sets up
MaxBufferSize == 2
\* distinct channel buffers the host owns
MaxPtrs == 3
\* longest block handed to the gain example
MaxBlockLen == 3
\* most events in one block of the gain example
MaxEvents == 4
\* blocks the gain example processes
MaxBlocks == 1

Idx == 0 .. (NParams - 1)
\* parameter values: 0 is every parameter's default; the handlers only copy
\* values, so the value a host event carries is the number of the call that
\* brings it, which tells any two writes apart
Val == 0 .. MaxCalls

VARIABLES
    \* ---- CLAP instance (src/format/clap/instance.rs) ----
    plugin_params,      \* InstanceShared::plugin_params  (audio -> main)
    processor_params,   \* InstanceShared::processor_params (main -> audio)
    plugin,             \* MainThreadState::plugin, its parameter values
    processor,          \* ProcessState::processor, its parameter values
    active,             \* whether a ProcessState exists (activate .. deactivate)
    mainT,              \* position of the main thread
    audioT,             \* position of the audio thread
    calls,              \* number of host calls made so far
    hist,               \* history variables read only by the properties
    \* ---- VST3 wrapper, parameter flow (src/format/vst3.rs) ----
    pval,               \* the plugin's parameter values behind get_accessor()
    param_states,       \* ParamStates: dirty_processor and dirty_editor
    wActive,            \* processor_state.processor.is_some()
    wEvents,            \* processor_state.events
    wMain,              \* position of the main / editor thread
    wAudio,             \* position of the audio thread
    wcalls,             \* number of host / editor calls made so far
    whist,              \* history variables read only by the properties
    \* ---- VST3 wrapper, buses and buffers (src/format/vst3.rs) ----
    bus_states,         \* BusStates: inputs and outputs, format and enabled
    processor_state,    \* ProcessorState: sizes fixed by setupProcessing / setActive
    view,               \* (history) what the last process call did with its buffers
    reply,              \* the bus arrangement call that is returning, with its result
    \* ---- bus topology of the Component and of the CLAP instance ----
    config_layout,      \* main_thread_state.config.layout (vst3/component.rs)
    layout_index,       \* MainThreadState::layout_index (clap/instance.rs)
    buffer_data,        \* ProcessState::buffer_data (clap/instance.rs)
    ports,              \* (history) the ports of the CLAP process call that is returning
    \* ---- Component (src/format/vst3/component.rs) ----
    editor_params,      \* MainThreadState::editor_params
    block,              \* (history) the Component call that is returning
    \* ---- Component and CLAP instance, threads and activation ----
    adapter,            \* the format the host created the plugin in
    config_max_buffer_size, \* main_thread_state.config.max_buffer_size
    process_config,     \* ProcessState::config (vst3/component.rs)
    cMain,              \* the Component handler the main thread is inside
    cAudio,             \* the Component handler the audio thread is inside
    life,               \* (history) the Component handler that returned last
    \* ---- CLAP instance, one parameter as the host sees it ----
    param,              \* its ParamInfo: steps (0 for None) and default
    param_value,        \* the plugin's value of it, a fraction
    told,               \* (history) the last exchange with the host about it
    \* ---- graphics ThreadPool ----
    task_count,         \* Context::task_count
    zero_tasks,         \* Context::zero_tasks: the waiting thread has been notified
    panic,              \* Context::panic: 0 for null, else the stored payload
    sender,             \* ThreadPool::sender is Some
    receiver,           \* the tasks in the channel, oldest first
    handles,            \* the worker threads: where each is in its loop
    scopeT,             \* the thread that owns the pool: where it is in scope / drop
    pool_hist,          \* (history) what happened during the scope call under way
    \* ---- X11 windows ----
    app_open,           \* ApplicationInner::open
    windows,            \* ApplicationInner::windows: the ids in the table
    window_states,      \* every window id: its WindowState and its handler's calls
    win_reply,          \* (history) the window call that returned last
    \* ---- gain example (examples/gain/src/lib.rs) ----
    gain,               \* GainProcessor::params.gain
    buffer,             \* the block: per sample, the gains it was multiplied by
    timeline,           \* the events of the block
    iter,               \* the split_at_events iterator
    gpos,               \* position of GainProcessor::process
    gcalls,             \* number of blocks processed so far
    ghist               \* history variables read only by the properties

chanVars == <<plugin_params, processor_params, plugin, processor, active,
              mainT, audioT, calls, hist>>

wrapVars == <<pval, param_states, wActive, wEvents, wMain, wAudio, wcalls, whist>>

routeVars == <<bus_states, processor_state, view, reply>>

layoutVars == <<config_layout, layout_index, buffer_data, ports>>

splitVars == <<gain, buffer, timeline, iter, gpos, gcalls, ghist>>

lifeVars == <<adapter, config_max_buffer_size, process_config, cMain, cAudio, life>>

mapVars == <<param, param_value, told>>

poolVars == <<task_count, zero_tasks, panic, sender, receiver, handles, scopeT,
              pool_hist>>

\* what belongs to no plugin adapter
winVars == <<app_open, windows, window_states, win_reply>>

otherVars == <<mapVars, poolVars, winVars>>

compVars == <<editor_params, block, lifeVars, otherVars>>

vars == <<chanVars, wrapVars, routeVars, splitVars, layoutVars, compVars>>

\* everything but the CLAP instance
notChan == <<wrapVars, routeVars, splitVars, layoutVars, compVars>>

(* ----------------------- ParamValues (sync::params) -------------------- *)
\* ParamValues::new: one value slot per parameter holding its default, and
\* an empty dirty set
ParamValuesNew == [values |-> [i \in Idx |-> 0], dirty |-> [i \in Idx |-> FALSE]]

\* first half of ParamValues::set: store the value
PVStore(pv, i, v) == [pv EXCEPT !.values[i] = v]

\* second half of ParamValues::set: mark the index in the dirty set
PVMark(pv, i) == [pv EXCEPT !.dirty[i] = TRUE]

\* one step of the drain behind ParamValues::poll: the bit of index i is
\* read and cleared in one atomic operation
PVTestAndClear(pv, i) == [pv EXCEPT !.dirty[i] = FALSE]

\* the value the poll iterator pairs with a yielded index
PVLoad(pv, i) == pv.values[i]

(* ------------------- CLAP instance: thread positions ------------------- *)
\* a host parameter event: <<parameter index, value>> (events whose id is
\* not in param_map are skipped by the handlers and are not enumerated)
\* the event list of call number c: empty, or one parameter event
HostEvents(c) == {<<>>} \cup {<< <<i, c>> >> : i \in Idx}

IdleThread == [pc |-> "idle", op |-> "none", ph |-> 0, cur |-> 0,
               ev |-> <<>>, events |-> <<>>]

HistInit ==
    [pendProc |-> [i \in Idx |-> 0], lastProc |-> [i \in Idx |-> 0],
     owedProc |-> [i \in Idx |-> 0],
     expProc |-> [i \in Idx |-> 0], quietProc |-> TRUE, polledProc |-> <<>>,
     pendPlug |-> [i \in Idx |-> 0], lastPlug |-> [i \in Idx |-> 0],
     owedPlug |-> [i \in Idx |-> 0],
     expPlug |-> [i \in Idx |-> 0], quietPlug |-> TRUE, polledPlug |-> <<>>,
     dspRan |-> FALSE, dspSaw |-> [i \in Idx |-> 0]]

\* (mutant) process runs the plugin's DSP before it polls processor_params
ProcessOrderDspFirst == <<"events", "dsp", "sync">>

\* the statements of ProcessState::process after the port checks, in order:
\* collect host events (plugin_params.set), sync_processor, processor.process
ProcessOrder == <<"events", "sync", "dsp">>

\* PluginAudioProcessorParams::flush: sync_processor, then the events
AudioFlushOrder == <<"sync", "events">>

\* ProcessState::reset: sync_processor, then processor.reset()
ResetOrder == <<"sync", "reset">>

\* PluginMainThreadParams::flush: sync_plugin, then the events
MainFlushOrder == <<"sync", "events">>

\* ProcessState::activate: sync_plugin, then plugin.processor(config)
ActivateOrder == <<"sync", "create">>

\* PluginStateImpl::load: sync_plugin, plugin.load, then
\* processor_params.set for every parameter
LoadOrder == <<"sync", "restore", "events">>

OrderOf(op) ==
    CASE op = "process" -> ProcessOrder
      [] op = "load" -> LoadOrder
      [] op = "aflush" -> AudioFlushOrder
      [] op = "reset" -> ResetOrder
      [] op = "mflush" -> MainFlushOrder
      [] op = "activate" -> ActivateOrder

\* the thread position on entering phase k of its operation; a phase with
\* nothing to do (no host event) is skipped, past the last phase the call
\* returns
RECURSIVE Enter(_, _)
Enter(t, k) ==
    IF k > Len(OrderOf(t.op)) THEN [t EXCEPT !.pc = "ret", !.ph = k]
    ELSE LET phase == OrderOf(t.op)[k]
         IN  CASE phase = "events" ->
                     IF t.ev = <<>> THEN Enter(t, k + 1)
                     ELSE [t EXCEPT !.pc = "store", !.ph = k]
               [] phase = "sync" -> [t EXCEPT !.pc = "sync", !.ph = k, !.cur = 0]
               [] OTHER -> [t EXCEPT !.pc = phase, !.ph = k]

\* the poll iterator moves past index t.cur; after the last index the poll
\* is complete
Advance(t) ==
    IF t.cur + 1 < NParams THEN [t EXCEPT !.pc = "sync", !.cur = t.cur + 1]
    ELSE [t EXCEPT !.pc = "synced"]

\* whether a thread is inside a poll / in the middle of a set
Polling(t) == t.pc \in {"sync", "load"}
MidSet(t) == t.pc = "mark"

(* ---- history bookkeeping (never read by the actions' guards) ---------- *)
\* pendX[i] counts the sets to index i published (marked) since the consumer
\* last visited i.  A poll of plugin_params starts on the main thread:
\* remember these counts, the value of the last set to each index, and
\* whether the writer is between store and mark
StartPollPlug(h) ==
    [h EXCEPT !.owedPlug = h.pendPlug, !.expPlug = h.lastPlug,
              !.quietPlug = ~MidSet(audioT), !.polledPlug = <<>>]

StartPollProc(h) ==
    [h EXCEPT !.owedProc = h.pendProc, !.expProc = h.lastProc,
              !.quietProc = ~MidSet(mainT), !.polledProc = <<>>]

EntersPoll(t) == t.pc = "sync" /\ t.cur = 0

EndPollPlug(h) ==
    [h EXCEPT !.owedPlug = [i \in Idx |-> 0], !.expPlug = [i \in Idx |-> 0],
              !.quietPlug = TRUE, !.polledPlug = <<>>]

EndPollProc(h) ==
    [h EXCEPT !.owedProc = [i \in Idx |-> 0], !.expProc = [i \in Idx |-> 0],
              !.quietProc = TRUE, !.polledProc = <<>>,
              !.dspRan = FALSE, !.dspSaw = [i \in Idx |-> 0]]

\* the thread moves to position t; a poll that starts there is noted
MainGo(t, h) ==
    /\ mainT' = t
    /\ hist' = IF EntersPoll(t) THEN StartPollPlug(h) ELSE h

AudioGo(t, h) ==
    /\ audioT' = t
    /\ hist' = IF EntersPoll(t) THEN StartPollProc(h) ELSE h

(* ----------------------- CLAP instance: main thread -------------------- *)
\* (mutant) sync_plugin holds off while the audio thread is between the
\* store and the mark of a set
MainSyncStepWaits ==
    /\ mainT.pc = "sync"
    /\ audioT.pc # "mark"
    /\ LET i == mainT.cur
       IN  /\ IF plugin_params.dirty[i]
              THEN /\ plugin_params' = PVTestAndClear(plugin_params, i)
                   /\ mainT' = [mainT EXCEPT !.pc = "load"]
              ELSE /\ UNCHANGED plugin_params
                   /\ mainT' = Advance(mainT)
           /\ hist' = [hist EXCEPT !.pendPlug[i] = 0]
    /\ UNCHANGED <<notChan, calls, processor_params, plugin, processor, active, audioT>>

\* InstanceShared::sync_plugin, the iterator's test of one index
MainSyncStep ==
    /\ mainT.pc = "sync"
    /\ LET i == mainT.cur
       IN  /\ IF plugin_params.dirty[i]
              THEN /\ plugin_params' = PVTestAndClear(plugin_params, i)
                   /\ mainT' = [mainT EXCEPT !.pc = "load"]
              ELSE /\ UNCHANGED plugin_params
                   /\ mainT' = Advance(mainT)
           /\ hist' = [hist EXCEPT !.pendPlug[i] = 0]
    /\ UNCHANGED <<notChan, calls, processor_params, plugin, processor, active, audioT>>

\* InstanceShared::sync_plugin, the value load of a yielded index and the
\* loop body plugin.set_param(id, value)
MainSyncLoad ==
    /\ mainT.pc = "load"
    /\ LET i == mainT.cur
           v == PVLoad(plugin_params, i)
       IN  /\ plugin' = [plugin EXCEPT ![i] = v]
           /\ hist' = [hist EXCEPT !.polledPlug = Append(@, <<i, v>>)]
    /\ mainT' = Advance(mainT)
    /\ UNCHANGED <<notChan, calls, plugin_params, processor_params, processor, active, audioT>>

\* the poll is exhausted: the handler goes on with its next statement
MainSynced ==
    /\ mainT.pc = "synced"
    /\ MainGo(Enter(mainT, mainT.ph + 1), hist)
    /\ UNCHANGED <<notChan, calls, plugin_params, processor_params, plugin, processor, active,
                   audioT>>

\* PluginMainThreadParams::flush is called with the host's events
MainFlush(evs) ==
    /\ calls < MaxCalls
    /\ calls' = calls + 1
    /\ mainT.pc = "idle"
    /\ LET t == Enter([IdleThread EXCEPT !.op = "mflush", !.ev = evs], 1)
       IN  MainGo(t, hist)
    /\ UNCHANGED <<notChan, plugin_params, processor_params, plugin, processor,
                   active, audioT>>

\* flush, one event: plugin.set_param and the value store of
\* processor_params.set
MainEvStore ==
    /\ mainT.pc = "store"
    /\ LET e == Head(mainT.ev)
       IN  /\ plugin' = [plugin EXCEPT ![e[1]] = e[2]]
           /\ processor_params' = PVStore(processor_params, e[1], e[2])
           /\ hist' = [hist EXCEPT !.lastProc[e[1]] = e[2],
                                   !.quietProc = @ /\ ~Polling(audioT)]
    /\ mainT' = [mainT EXCEPT !.pc = "mark"]
    /\ UNCHANGED <<notChan, calls, plugin_params, processor, active, audioT>>

\* flush, one event: the dirty mark of processor_params.set
MainEvMark ==
    /\ mainT.pc = "mark"
    /\ LET e == Head(mainT.ev)
           t == [mainT EXCEPT !.ev = Tail(@)]
       IN  /\ processor_params' = PVMark(processor_params, e[1])
           /\ MainGo(IF t.ev = <<>> THEN Enter(t, t.ph + 1)
                     ELSE [t EXCEPT !.pc = "store"],
                     [hist EXCEPT !.pendProc[e[1]] = @ + 1,
                                  !.quietProc = @ /\ ~Polling(audioT)])
    /\ UNCHANGED <<notChan, calls, plugin_params, plugin, processor, active, audioT>>

\* the state a host stream holds at call number c: value c for every
\* parameter, as <<index, value>> pairs in index order; <<>> is a stream
\* plugin.load fails on
LoadedEvents(c) == {<<>>, [k \in 1 .. NParams |-> <<k - 1, c>>]}

\* PluginStateImpl::load is called on the main thread
MainLoad(evs) ==
    /\ calls < MaxCalls
    /\ calls' = calls + 1
    /\ mainT.pc = "idle"
    /\ LET t == Enter([IdleThread EXCEPT !.op = "load", !.ev = evs], 1)
       IN  MainGo(t, hist)
    /\ UNCHANGED <<notChan, plugin_params, processor_params, plugin, processor,
                   active, audioT>>

\* load: self.plugin.load(input)?; a failed load returns before the loop
MainRestore ==
    /\ mainT.pc = "restore"
    /\ plugin' = IF mainT.ev = <<>> THEN plugin
                 ELSE [i \in Idx |-> mainT.ev[i + 1][2]]
    /\ MainGo(Enter(mainT, mainT.ph + 1), hist)
    /\ UNCHANGED <<notChan, calls, plugin_params, processor_params, processor, active,
                   audioT>>

\* ProcessState::activate is called (main thread, no ProcessState exists)
Activate ==
    /\ calls < MaxCalls
    /\ calls' = calls + 1
    /\ mainT.pc = "idle"
    /\ ~active
    /\ LET t == Enter([IdleThread EXCEPT !.op = "activate"], 1)
       IN  MainGo(t, hist)
    /\ UNCHANGED <<notChan, plugin_params, processor_params, plugin, processor,
                   active, audioT>>

\* activate: processor: main_thread_state.plugin.processor(config), which
\* clones the plugin's parameter values
MainCreate ==
    /\ mainT.pc = "create"
    /\ processor' = plugin
    /\ active' = TRUE
    /\ MainGo(Enter(mainT, mainT.ph + 1), hist)
    /\ UNCHANGED <<notChan, calls, plugin_params, processor_params, plugin, audioT>>

\* the main-thread call returns
MainReturn ==
    /\ mainT.pc = "ret"
    /\ mainT' = IdleThread
    /\ hist' = EndPollPlug(hist)
    /\ UNCHANGED <<notChan, calls, plugin_params, processor_params, plugin, processor, active,
                   audioT>>

\* the host deactivates the plugin: the ProcessState is dropped
Deactivate ==
    /\ calls < MaxCalls
    /\ calls' = calls + 1
    /\ mainT.pc = "idle"
    /\ audioT.pc = "idle"
    /\ active
    /\ active' = FALSE
    /\ processor' = [i \in Idx |-> 0]
    /\ audioT' = IdleThread
    /\ UNCHANGED <<notChan, plugin_params, processor_params, plugin, mainT, hist>>

(* ---------------------- CLAP instance: audio thread -------------------- *)
\* GainProcessor::process applies every ParamChange event of the block to
\* its parameters, in timeline order
RECURSIVE ApplyEvents(_, _)
ApplyEvents(params, events) ==
    IF events = <<>> THEN params
    ELSE ApplyEvents([params EXCEPT ![Head(events)[1]] = Head(events)[2]],
                     Tail(events))

\* ProcessState::process is called with matching ports; self.events.clear()
AudioProcess(evs) ==
    /\ calls < MaxCalls
    /\ calls' = calls + 1
    /\ active
    /\ audioT.pc = "idle"
    /\ LET t == Enter([IdleThread EXCEPT !.op = "process", !.ev = evs], 1)
       IN  AudioGo(t, hist)
    /\ UNCHANGED <<notChan, plugin_params, processor_params, plugin, processor,
                   active, mainT>>

\* ProcessState::process returns Err on a port or channel count mismatch,
\* before it touches events or parameters
AudioProcessReject ==
    /\ active
    /\ audioT.pc = "idle"
    /\ calls < MaxCalls
    /\ calls' = calls + 1
    /\ UNCHANGED <<notChan, plugin_params, processor_params, plugin, processor,
                   active, mainT, audioT, hist>>

\* PluginAudioProcessorParams::flush is called on the audio thread
AudioFlush(evs) ==
    /\ calls < MaxCalls
    /\ calls' = calls + 1
    /\ active
    /\ audioT.pc = "idle"
    /\ LET t == Enter([audioT EXCEPT !.op = "aflush", !.ev = evs], 1)
       IN  AudioGo(t, hist)
    /\ UNCHANGED <<notChan, plugin_params, processor_params, plugin, processor,
                   active, mainT>>

\* ProcessState::reset is called on the audio thread
AudioReset ==
    /\ calls < MaxCalls
    /\ calls' = calls + 1
    /\ active
    /\ audioT.pc = "idle"
    /\ LET t == Enter([audioT EXCEPT !.op = "reset", !.ev = <<>>], 1)
       IN  AudioGo(t, hist)
    /\ UNCHANGED <<notChan, plugin_params, processor_params, plugin, processor,
                   active, mainT>>

\* one host event: process pushes it to self.events, the audio-thread flush
\* applies it to the processor; both then store the value of
\* plugin_params.set
AudioEvStore ==
    /\ audioT.pc = "store"
    /\ LET e == Head(audioT.ev)
       IN  /\ IF audioT.op = "process"
              THEN /\ audioT' = [audioT EXCEPT !.pc = "mark",
                                               !.events = Append(@, e)]
                   /\ UNCHANGED processor
              ELSE /\ audioT' = [audioT EXCEPT !.pc = "mark"]
                   /\ processor' = [processor EXCEPT ![e[1]] = e[2]]
           /\ plugin_params' = PVStore(plugin_params, e[1], e[2])
           /\ hist' = [hist EXCEPT !.lastPlug[e[1]] = e[2],
                                   !.quietPlug = @ /\ ~Polling(mainT)]
    /\ UNCHANGED <<notChan, calls, processor_params, plugin, active, mainT>>

\* (mutant) the audio thread marks the index in processor_params, the set
\* it polls itself
AudioEvMarkOwnSet ==
    /\ audioT.pc = "mark"
    /\ LET e == Head(audioT.ev)
           t == [audioT EXCEPT !.ev = Tail(@)]
       IN  /\ processor_params' = PVMark(processor_params, e[1])
           /\ AudioGo(IF t.ev = <<>> THEN Enter(t, t.ph + 1)
                      ELSE [t EXCEPT !.pc = "store"],
                      [hist EXCEPT !.pendPlug[e[1]] = @ + 1,
                                   !.quietPlug = @ /\ ~Polling(mainT)])
    /\ UNCHANGED <<notChan, calls, plugin_params, plugin, processor, active, mainT>>

\* one host event: the dirty mark of plugin_params.set
AudioEvMark ==
    /\ audioT.pc = "mark"
    /\ LET e == Head(audioT.ev)
           t == [audioT EXCEPT !.ev = Tail(@)]
       IN  /\ plugin_params' = PVMark(plugin_params, e[1])
           /\ AudioGo(IF t.ev = <<>> THEN Enter(t, t.ph + 1)
                      ELSE [t EXCEPT !.pc = "store"],
                      [hist EXCEPT !.pendPlug[e[1]] = @ + 1,
                                   !.quietPlug = @ /\ ~Polling(mainT)])
    /\ UNCHANGED <<notChan, calls, processor_params, plugin, processor, active, mainT>>

\* (mutant) sync_processor drains plugin_params, as sync_plugin does
AudioSyncStepWrongSet ==
    /\ audioT.pc = "sync"
    /\ LET i == audioT.cur
       IN  /\ IF plugin_params.dirty[i]
              THEN /\ plugin_params' = PVTestAndClear(plugin_params, i)
                   /\ audioT' = [audioT EXCEPT !.pc = "load"]
              ELSE /\ UNCHANGED plugin_params
                   /\ audioT' = Advance(audioT)
           /\ hist' = [hist EXCEPT !.pendProc[i] = 0]
    /\ UNCHANGED <<notChan, calls, processor_params, plugin, processor, active, mainT>>

\* InstanceShared::sync_processor, the iterator's test of one index
AudioSyncStep ==
    /\ audioT.pc = "sync"
    /\ LET i == audioT.cur
       IN  /\ IF processor_params.dirty[i]
              THEN /\ processor_params' = PVTestAndClear(processor_params, i)
                   /\ audioT' = [audioT EXCEPT !.pc = "load"]
              ELSE /\ UNCHANGED processor_params
                   /\ audioT' = Advance(audioT)
           /\ hist' = [hist EXCEPT !.pendProc[i] = 0]
    /\ UNCHANGED <<notChan, calls, plugin_params, plugin, processor, active, mainT>>

\* InstanceShared::sync_processor, the value load of a yielded index and
\* the loop body processor.set_param(id, value)
AudioSyncLoad ==
    /\ audioT.pc = "load"
    /\ LET i == audioT.cur
           v == PVLoad(processor_params, i)
       IN  /\ processor' = [processor EXCEPT ![i] = v]
           /\ hist' = [hist EXCEPT !.polledProc = Append(@, <<i, v>>)]
    /\ audioT' = Advance(audioT)
    /\ UNCHANGED <<notChan, calls, plugin_params, processor_params, plugin, active, mainT>>

\* the poll is exhausted: the handler goes on with its next statement
AudioSynced ==
    /\ audioT.pc = "synced"
    /\ AudioGo(Enter(audioT, audioT.ph + 1), hist)
    /\ UNCHANGED <<notChan, calls, plugin_params, processor_params, plugin, processor, active,
                   mainT>>

\* process: self.processor.process(buffers, Events::new(&self.events))
AudioDsp ==
    /\ audioT.pc = "dsp"
    /\ processor' = ApplyEvents(processor, audioT.events)
    /\ AudioGo(Enter(audioT, audioT.ph + 1),
               [hist EXCEPT !.dspRan = TRUE, !.dspSaw = processor])
    /\ UNCHANGED <<notChan, calls, plugin_params, processor_params, plugin, active, mainT>>

\* reset: self.processor.reset()
AudioResetStep ==
    /\ audioT.pc = "reset"
    /\ AudioGo(Enter(audioT, audioT.ph + 1), hist)
    /\ UNCHANGED <<notChan, calls, plugin_params, processor_params, plugin, processor, active,
                   mainT>>

\* the audio-thread call returns; self.events keeps its content until the
\* next process call clears it
AudioReturn ==
    /\ audioT.pc = "ret"
    /\ audioT' = [IdleThread EXCEPT !.events = audioT.events]
    /\ hist' = EndPollProc(hist)
    /\ UNCHANGED <<notChan, calls, plugin_params, processor_params, plugin, processor, active,
                   mainT>>

(* ----------------------- CLAP instance: specification ------------------ *)
\* InstanceShared::new and MainThreadState::new; no ProcessState yet
ChanInit ==
    /\ plugin_params = ParamValuesNew
    /\ processor_params = ParamValuesNew
    /\ plugin = [i \in Idx |-> 0]
    /\ processor = [i \in Idx |-> 0]
    /\ active = FALSE
    /\ mainT = IdleThread
    /\ audioT = IdleThread
    /\ calls = 0
    /\ hist = HistInit

NextChan ==
    \/ \E evs \in HostEvents(calls + 1) : MainFlush(evs)
    \/ MainSyncStep
    \/ MainSyncLoad
    \/ MainSynced
    \/ MainEvStore
    \/ MainEvMark
    \/ \E evs \in LoadedEvents(calls + 1) : MainLoad(evs)
    \/ MainRestore
    \/ Activate
    \/ MainCreate
    \/ MainReturn
    \/ Deactivate
    \/ \E evs \in HostEvents(calls + 1) : AudioProcess(evs)
    \/ AudioProcessReject
    \/ \E evs \in HostEvents(calls + 1) : AudioFlush(evs)
    \/ AudioReset
    \/ AudioResetStep
    \/ AudioEvStore
    \/ AudioEvMark
    \/ AudioSyncStep
    \/ AudioSyncLoad
    \/ AudioSynced
    \/ AudioDsp
    \/ AudioReturn


(* ----------------------- CLAP instance: properties --------------------- *)
\* the steps inside a main-thread call and inside an audio-thread call
MainStep ==
    MainSyncStep \/ MainSyncLoad \/ MainSynced \/ MainEvStore \/ MainEvMark
       \/ MainRestore \/ MainCreate \/ MainReturn

AudioStep ==
    AudioEvStore \/ AudioEvMark \/ AudioSyncStep \/ AudioSyncLoad \/ AudioSynced
       \/ AudioDsp \/ AudioResetStep \/ AudioReturn

\* an upper bound of the steps one statement of a handler takes: a poll
\* tests and loads every index, a list of events stores and marks each
StatementSteps == 2 * NParams + 2

\* the steps a thread at position t has left in its call, counted from its
\* own position alone: the statements not yet entered, and the rest of the
\* current one
StepsLeft(t) ==
    IF t.pc = "idle" THEN 0
    ELSE (Len(OrderOf(t.op)) + 2 - t.ph) * StatementSteps
         + (CASE t.pc = "sync" -> 2 * (NParams - t.cur) + 1
              [] t.pc = "load" -> 2 * (NParams - t.cur)
              [] t.pc = "store" -> 2 * Len(t.ev)
              [] t.pc = "mark" -> 2 * Len(t.ev) - 1
              [] OTHER -> 0)

\* the most steps any call takes: process has the most statements
CallSteps == (Len(ProcessOrder) + 2) * StatementSteps

\* the step is taken by the audio thread / by the main thread
AudioThreadStep == audioT' # audioT
MainThreadStep == mainT' # mainT

\* index i becomes pending in the ParamValues pv
Marks(pv, i) == ~pv.dirty[i] /\ pv'.dirty[i]

\* C20: a side is never notified of its own write.  The mark of a change
\* applied on the audio thread (host event in process, audio-thread flush)
\* lands in plugin_params, which the main thread polls, and no step of the
\* audio thread makes an index pending in processor_params, which the
\* audio thread polls itself; the mark of a change applied on the main
\* thread (main-thread flush, state load) lands in processor_params, and
\* no step of the main thread makes an index pending in plugin_params.
NoSelfNotification ==
    [][ /\ AudioThreadStep => \A i \in Idx : ~Marks(processor_params, i)
        /\ MainThreadStep => \A i \in Idx : ~Marks(plugin_params, i)
        /\ (AudioThreadStep /\ audioT.pc = "mark") =>
              /\ plugin_params'.dirty[Head(audioT.ev)[1]]
              /\ processor_params' = processor_params
        /\ (MainThreadStep /\ mainT.pc = "mark") =>
              /\ processor_params'.dirty[Head(mainT.ev)[1]]
              /\ plugin_params' = plugin_params ]_vars

\* C20 witness: a state load has marked every index for the processor and
\* an audio-thread flush has applied a change and marked it for the plugin;
\* both calls are about to return
NoSelfNotificationWitness ==
    /\ mainT.op = "load" /\ mainT.pc = "ret"
    /\ \A i \in Idx : processor_params.dirty[i] /\ plugin[i] = processor_params.values[i]
    /\ audioT.op = "aflush" /\ audioT.pc = "ret"
    /\ \E i \in Idx : /\ plugin_params.dirty[i]
                      /\ processor[i] = plugin_params.values[i]
                      /\ processor[i] # 0

\* C17: neither thread waits for the other.  Whatever the other thread is
\* doing, a thread inside a call can take its next step; a step of one
\* thread never moves the other; and every step of a thread inside a call
\* brings it closer to its return by a measure bounded by CallSteps, so each
\* set, poll and call ends within CallSteps of its own steps under every
\* schedule of the other thread.
NeitherThreadWaits ==
    [][ /\ audioT.pc # "idle" => ENABLED AudioStep
        /\ mainT.pc # "idle" => ENABLED MainStep
        /\ StepsLeft(audioT) <= CallSteps /\ StepsLeft(mainT) <= CallSteps
        /\ audioT' # audioT => mainT' = mainT
        /\ mainT' # mainT => audioT' = audioT
        /\ (audioT' # audioT /\ audioT.pc # "idle") =>
              StepsLeft(audioT') < StepsLeft(audioT)
        /\ (mainT' # mainT /\ mainT.pc # "idle") =>
              StepsLeft(mainT') < StepsLeft(mainT) ]_vars

\* C17 witness: the audio thread is in the middle of its poll, past the
\* first index, while the main thread is between the store and the mark of
\* a set; both can step
NeitherThreadWaitsWitness ==
    /\ audioT.pc = "sync" /\ audioT.cur > 0
    /\ mainT.pc = "mark"
    /\ ENABLED AudioStep
    /\ ENABLED MainStep

\* the pairs <<i, f[i]>> of the indices i >= k with cnt[i] > 0, in index order
RECURSIVE ExpectedFrom(_, _, _)
ExpectedFrom(cnt, f, k) ==
    IF k >= NParams THEN <<>>
    ELSE (IF cnt[k] > 0 THEN << <<k, f[k]>> >> ELSE <<>>)
         \o ExpectedFrom(cnt, f, k + 1)

\* how often index i occurs in a polled result
Occurrences(polled, i) == Cardinality({k \in 1 .. Len(polled) : polled[k][1] = i})

\* C1: Parameter Channel last-write-wins.  In both directions: a set that was
\* published and not yet visited by the consumer is still marked, and nothing
\* else is marked (no update lost, none delivered twice); and when a poll
\* that no set overlapped is complete, its result lists exactly the indices
\* set since the consumer last visited them, once each, in index order, each
\* with the value of the last set to it.
LastWriteWins ==
    /\ \A i \in Idx : processor_params.dirty[i] = (hist.pendProc[i] > 0)
    /\ \A i \in Idx : plugin_params.dirty[i] = (hist.pendPlug[i] > 0)
    /\ (audioT.pc = "synced" /\ hist.quietProc)
          => hist.polledProc = ExpectedFrom(hist.owedProc, hist.expProc, 0)
    /\ (mainT.pc = "synced" /\ hist.quietPlug)
          => hist.polledPlug = ExpectedFrom(hist.owedPlug, hist.expPlug, 0)

\* C1 witness: a complete, undisturbed processor-side poll that delivered
\* two sets to one index as one pair, with the value of the second set
LastWriteWinsWitness ==
    /\ audioT.pc = "synced"
    /\ hist.quietProc
    /\ \E i \in Idx : /\ hist.owedProc[i] = 2
                      /\ hist.expProc[i] = 2
                      /\ hist.polledProc = << <<i, 2>> >>

\* C4: end-to-end delivery.  When a process call has run the plugin's DSP and
\* no set overlapped its poll: every parameter set by the control thread
\* before the call was yielded by the call's poll exactly once and the
\* processor held the set value when the DSP started; a parameter with no
\* set since the previous poll was not yielded (so a second process call
\* without an intervening set polls nothing).
EndToEndDelivery ==
    (audioT.op = "process" /\ audioT.pc = "ret")
       => /\ hist.dspRan
          /\ hist.quietProc =>
                \A i \in Idx :
                   IF hist.owedProc[i] > 0
                   THEN /\ Occurrences(hist.polledProc, i) = 1
                        /\ hist.dspSaw[i] = hist.expProc[i]
                   ELSE Occurrences(hist.polledProc, i) = 0

\* C4 witness: activation was call 1, the control thread's set call 2, and
\* the process call 3 delivered it before its DSP ran
EndToEndDeliveryWitness ==
    /\ audioT.op = "process" /\ audioT.pc = "ret"
    /\ calls = 3
    /\ hist.quietProc
    /\ \E i \in Idx : /\ hist.owedProc[i] = 1
                      /\ hist.expProc[i] = 2
                      /\ hist.dspSaw[i] = 2
                      /\ hist.polledProc = << <<i, 2>> >>

(* =================== VST3 wrapper: parameter flow ====================== *)
\* AtomicBitset::with_len(param_count): no bit set
BitsetNew == [i \in Idx |-> FALSE]

\* AtomicBitset::set(index, Release)
BitsetSet(bits, i) == [bits EXCEPT ![i] = TRUE]

\* one step of AtomicBitset::drain_indices(Acquire): the bit of index i is
\* read and cleared in one atomic operation
BitsetTestAndClear(bits, i) == [bits EXCEPT ![i] = FALSE]

\* AtomicBitset::set_all(Release): every bit is set
BitsetSetAll(bits) == [i \in Idx |-> TRUE]

Roles == {"processor", "editor"}

\* (mutant) perform_edit marks the parameter before it stores the value
PerformEditStepsMarkFirst == <<"mark_processor", "store">>

\* Vst3EditorContext::perform_edit: accessor.set, (host performEdit,) then
\* dirty_processor.set
PerformEditSteps == <<"store", "mark_processor">>

\* Wrapper::setParamNormalized: accessor.set, dirty_processor.set,
\* dirty_editor.set
SetParamNormalizedSteps == <<"store", "mark_processor", "mark_editor">>

\* the editor consumes Vst3EditorContext::poll_params
PollParamsSteps == <<"drain">>

\* Wrapper::process: drain dirty_processor into events, apply the host's
\* parameter points, then sort, gather buffers and run the processor
WrapProcessSteps == <<"drain", "points", "finish">>

StepsOf(op) ==
    CASE op = "perform_edit" -> PerformEditSteps
      [] op = "set_param_normalized" -> SetParamNormalizedSteps
      [] op = "poll_params" -> PollParamsSteps
      [] op = "process" -> WrapProcessSteps

\* (mutant) process drains the editor's set
ProcessDrainsEditor == "editor"

\* the set Wrapper::process drains: param_states.dirty_processor
ProcessDrains == "processor"

\* (mutant) poll_params drains the processor's set
PollParamsDrainsProcessor == "processor"

\* the set poll_params drains: param_states.dirty_editor
PollParamsDrains == "editor"

WIdle == [op |-> "none", k |-> 0, sub |-> "test", cur |-> 0, idx |-> 0,
          val |-> 0, pts |-> <<>>]

\* the statement a thread is at
CurStep(t) == IF t.k = 0 THEN "idle" ELSE StepsOf(t.op)[t.k]

\* the thread's statement is done: on to the next one, or the call returns
StepDone(t) ==
    IF t.k >= Len(StepsOf(t.op)) THEN WIdle
    ELSE [t EXCEPT !.k = @ + 1, !.sub = "test", !.cur = 0]

\* a call of operation op starts
StartCall(op, i, v) ==
    StepDone([WIdle EXCEPT !.op = op, !.idx = i, !.val = v])

\* (history) no index yielded in the drain in progress
NoRead == [idx |-> 0, val |-> 0, done |-> FALSE, markers |-> {}, mid |-> FALSE,
           markDrain |-> 0, yieldDrain |-> 0]

WHistInit ==
    [stores |-> [i \in Idx |-> <<>>],
     markers |-> [r \in Roles |-> [i \in Idx |-> {}]],
     read |-> [r \in Roles |-> NoRead],
     started |-> [r \in Roles |-> 0],
     completed |-> [r \in Roles |-> 0],
     unyielded |-> [r \in Roles |-> [i \in Idx |-> FALSE]],
     markDrain |-> [r \in Roles |-> [i \in Idx |-> 0]],
     midDrain |-> [r \in Roles |-> [i \in Idx |-> FALSE]],
     yieldsSince |-> [r \in Roles |-> [i \in Idx |-> 0]],
     delivered |-> <<>>]

\* Wrapper::new: no processor, empty dirty sets, default parameter values
WrapInit ==
    /\ pval = [i \in Idx |-> 0]
    /\ param_states = [processor |-> BitsetNew, editor |-> BitsetNew]
    /\ wActive = FALSE
    /\ wEvents = <<>>
    /\ wMain = WIdle
    /\ wAudio = WIdle
    /\ wcalls = 0
    /\ whist = WHistInit

\* position of value v in the order of the stores to one parameter: 0 for
\* the initial value, past the end for a value not stored yet
PosIn(st, v) ==
    IF v = 0 THEN 0
    ELSE IF \E k \in 1 .. Len(st) : st[k] = v
         THEN CHOOSE k \in 1 .. Len(st) : st[k] = v
         ELSE MaxWCalls + 1

\* (history) accessor.set of value v to parameter i
HStore(h, i, v) == [h EXCEPT !.stores[i] = Append(@, v)]

\* (history) a mark of index i lands in set r, published for value v
HMark(h, r, i, v) ==
    LET fresh == ~h.unyielded[r][i]
    IN  [h EXCEPT !.markers[r][i] = @ \cup {v},
                  !.yieldsSince[r][i] = 0,
                  !.unyielded[r][i] = TRUE,
                  !.markDrain[r][i] = IF fresh THEN h.started[r] ELSE @,
                  !.midDrain[r][i] =
                      IF fresh THEN h.started[r] > h.completed[r] ELSE @]

\* (history) consumer r's drain yields index i, having cleared bit i of the
\* set `which`
HYield(h, r, which, i) ==
    [h EXCEPT !.read[r] = [idx |-> i, val |-> 0, done |-> FALSE,
                           markers |-> h.markers[which][i],
                           mid |-> h.midDrain[r][i],
                           markDrain |-> h.markDrain[r][i],
                           yieldDrain |-> h.started[r]],
              !.markers[which][i] = {},
              !.unyielded[r][i] = FALSE,
              !.markDrain[r][i] = 0,
              !.midDrain[r][i] = FALSE,
              !.yieldsSince[r][i] = @ + 1]

\* (history) consumer r reads value v for the index it was yielded
HRead(h, r, v) == [h EXCEPT !.read[r].val = v, !.read[r].done = TRUE]

\* the host's parameter points of one block: at most one point, at an offset
HostPoints(c) ==
    {<<>>} \cup {<< [idx |-> i, val |-> c, offset |-> o] >> :
                    i \in Idx, o \in 0 .. MaxOffset}

\* events.sort_by_key(offset): stable insertion of e into a sorted sequence
RECURSIVE InsertByOffset(_, _)
InsertByOffset(sorted, e) ==
    IF sorted = <<>> THEN <<e>>
    ELSE IF sorted[Len(sorted)].offset <= e.offset THEN Append(sorted, e)
    ELSE Append(InsertByOffset(SubSeq(sorted, 1, Len(sorted) - 1), e),
                sorted[Len(sorted)])

RECURSIVE SortByOffset(_)
SortByOffset(evs) ==
    IF evs = <<>> THEN <<>>
    ELSE InsertByOffset(SortByOffset(SubSeq(evs, 1, Len(evs) - 1)), evs[Len(evs)])

(* ---- main thread: editor and edit controller ---- *)
\* Vst3EditorContext::perform_edit is called
WrapPerformEdit(i) ==
    /\ wMain.op = "none" /\ wcalls < MaxWCalls
    /\ wMain' = StartCall("perform_edit", i, wcalls + 1)
    /\ wcalls' = wcalls + 1
    /\ UNCHANGED <<pval, param_states, wActive, wEvents, wAudio, whist, chanVars, routeVars, splitVars, layoutVars, compVars>>

\* Wrapper::setParamNormalized is called with a known parameter id
WrapSetParamNormalized(i) ==
    /\ wMain.op = "none" /\ wcalls < MaxWCalls
    /\ wMain' = StartCall("set_param_normalized", i, wcalls + 1)
    /\ wcalls' = wcalls + 1
    /\ UNCHANGED <<pval, param_states, wActive, wEvents, wAudio, whist, chanVars, routeVars, splitVars, layoutVars, compVars>>

\* the editor calls poll_params: drain_indices on the editor's set begins
WrapPollParams ==
    /\ wMain.op = "none" /\ wcalls < MaxWCalls
    /\ wMain' = StartCall("poll_params", 0, 0)
    /\ wcalls' = wcalls + 1
    /\ whist' = [whist EXCEPT !.started["editor"] = @ + 1]
    /\ UNCHANGED <<pval, param_states, wActive, wEvents, wAudio, chanVars, routeVars, splitVars, layoutVars, compVars>>

\* param_info.get_accessor().set(&self.plugin, value)
WrapMainStore ==
    /\ CurStep(wMain) = "store"
    /\ pval' = [pval EXCEPT ![wMain.idx] = wMain.val]
    /\ whist' = HStore(whist, wMain.idx, wMain.val)
    /\ wMain' = StepDone(wMain)
    /\ UNCHANGED <<param_states, wActive, wEvents, wAudio, wcalls, chanVars, routeVars, splitVars, layoutVars, compVars>>

\* dirty_processor.set(param_index, Release) / dirty_editor.set(..)
WrapMainMark ==
    /\ CurStep(wMain) \in {"mark_processor", "mark_editor"}
    /\ LET r == IF CurStep(wMain) = "mark_processor" THEN "processor" ELSE "editor"
       IN  /\ param_states' = [param_states EXCEPT ![r] = BitsetSet(@, wMain.idx)]
           /\ whist' = HMark(whist, r, wMain.idx, wMain.val)
    /\ wMain' = StepDone(wMain)
    /\ UNCHANGED <<pval, wActive, wEvents, wAudio, wcalls, chanVars, routeVars, splitVars, layoutVars, compVars>>

\* one step of a drain iterator at cursor t.cur over the bits of one set:
\* past the last index the drain is over; a set bit is cleared and yielded;
\* a clear bit is skipped.  The thread after the step:
DrainThread(t, bits) ==
    IF t.cur = NParams THEN StepDone(t)
    ELSE IF bits[t.cur] THEN [t EXCEPT !.sub = "read"]
    ELSE [t EXCEPT !.cur = @ + 1]

\* the bits after the step
DrainBits(t, bits) ==
    IF t.cur < NParams /\ bits[t.cur] THEN BitsetTestAndClear(bits, t.cur)
    ELSE bits

\* (history) the step of consumer r's drain over the set `which`
DrainHist(h, t, bits, r, which) ==
    IF t.cur = NParams THEN [h EXCEPT !.completed[r] = @ + 1, !.read[r] = NoRead]
    ELSE IF bits[t.cur] THEN HYield(h, r, which, t.cur)
    ELSE h

\* PollParams iterator: next index of the editor's drain
WrapMainDrainTest ==
    /\ CurStep(wMain) = "drain" /\ wMain.sub = "test"
    /\ LET which == PollParamsDrains
           bits == param_states[which]
       IN  /\ wMain' = DrainThread(wMain, bits)
           /\ param_states' = [param_states EXCEPT ![which] = DrainBits(wMain, bits)]
           /\ whist' = DrainHist(whist, wMain, bits, "editor", which)
    /\ UNCHANGED <<pval, wActive, wEvents, wAudio, wcalls, chanVars, routeVars, splitVars, layoutVars, compVars>>

\* PollParams iterator: the value of the yielded index is read
WrapMainDrainRead ==
    /\ CurStep(wMain) = "drain" /\ wMain.sub = "read"
    /\ whist' = HRead(whist, "editor", pval[wMain.cur])
    /\ wMain' = [wMain EXCEPT !.sub = "test", !.cur = @ + 1]
    /\ UNCHANGED <<pval, param_states, wActive, wEvents, wAudio, wcalls, chanVars, routeVars, splitVars, layoutVars, compVars>>

(* ---- buses, activation and the scratch buffer ---- *)
\* BusFormat, named by its channel count: Stereo is the only variant
Formats == {2}

\* speaker arrangements a host may propose; k51 stands for every
\* arrangement other than mono and stereo
Arrangements == {"kMono", "kStereo", "k51"}

\* Option::None of a bus format
NoFormat == 0

\* speaker_arrangement_to_bus_format
SpeakerArrangementToBusFormat(speaker_arrangement) ==
    IF speaker_arrangement = "kStereo" THEN 2 ELSE NoFormat

\* bus_format_to_speaker_arrangement
BusFormatToSpeakerArrangement(bus_format) == "kStereo"

\* P::buses(): one input bus and one output bus
BusListInputs == 1
BusListOutputs == 1

\* P::bus_configs() as a set: a format for every bus of the bus list
BusConfigSet == {[inputs |-> <<i>>, outputs |-> <<o>>] : i \in Formats, o \in Formats}

\* bus_config_list.get_default()
DefaultConfig == [inputs |-> <<2>>, outputs |-> <<2>>]

\* BusState::new(format, true)
BusStateNew(format) == [format |-> format, enabled |-> TRUE]

\* (mutant) a disabled bus keeps the channels of its format
BusChannelsOfFormat(bus_state) == bus_state.format

\* channels a bus contributes: those of its format if enabled, else none
BusChannels(bus_state) == IF bus_state.enabled THEN bus_state.format ELSE 0

\* setActive, "Prepare buffer indices": the (start, end) channel range of
\* every bus of one direction
RECURSIVE BusIndices(_, _)
BusIndices(states, total) ==
    IF states = <<>> THEN <<>>
    ELSE <<<<total, total + BusChannels(Head(states))>>>>
            \o BusIndices(Tail(states), total + BusChannels(Head(states)))

\* total_channels at the end of that loop
RECURSIVE TotalChannels(_)
TotalChannels(states) ==
    IF states = <<>> THEN 0
    ELSE BusChannels(Head(states)) + TotalChannels(Tail(states))

Min(a, b) == IF a <= b THEN a ELSE b
Max(a, b) == IF a >= b THEN a ELSE b

\* Vec::reserve(additional) on a Vec of f32: capacity afterwards
VecReserve(cap, len, additional) ==
    IF cap - len >= additional THEN cap
    ELSE Max(Max(2 * cap, len + additional), 4)

\* Vec::shrink_to(min_capacity): capacity afterwards
VecShrinkTo(cap, len, min_capacity) ==
    IF cap > Max(len, min_capacity) THEN Max(len, min_capacity) ELSE cap

\* setActive, "Ensure enough scratch buffer space"
ScratchBufferSize(max_buffer_size, input_channels, output_channels) ==
    max_buffer_size * Min(input_channels, output_channels)

NoView == [result |-> "none", samples |-> 0, host_inputs |-> <<>>,
           host_outputs |-> <<>>, input_ptrs |-> <<>>, output_ptrs |-> <<>>,
           aliased_inputs |-> <<>>, scratch_len |-> 0, grew |-> FALSE,
           in_before |-> <<>>, in_after |-> <<>>,
           in_buses |-> <<>>, out_buses |-> <<>>]

\* no bus arrangement call is returning
NoReply == [op |-> "none", inputs |-> <<>>, outputs |-> <<>>, config_id |-> 0,
            result |-> "none"]

\* Wrapper::new: the default configuration with every bus enabled, and an
\* empty ProcessorState
RouteInit ==
    /\ bus_states = [inputs |-> [k \in 1 .. BusListInputs |->
                                   BusStateNew(DefaultConfig.inputs[k])],
                     outputs |-> [k \in 1 .. BusListOutputs |->
                                   BusStateNew(DefaultConfig.outputs[k])]]
    /\ processor_state = [max_buffer_size |-> 0, input_channels |-> 0,
                          input_indices |-> <<>>, output_channels |-> 0,
                          output_indices |-> <<>>, scratch_capacity |-> 0]
    /\ view = NoView
    /\ reply = NoReply

\* no call of the Wrapper is under way on either thread
NoCallRunning ==
    /\ wMain.op = "none" /\ wAudio.op = "none"
    /\ view.result = "none" /\ reply.op = "none" /\ ports.result = "none"

\* the host changes the processing setup only while inactive
HostMayConfigure == NoCallRunning /\ ~wActive

\* Wrapper::activateBus for an audio bus; nothing in it looks at whether
\* the plugin is active
ActivateBus(dir, index, state) ==
    /\ NoCallRunning
    /\ IF index < Len(bus_states[dir])
       THEN bus_states' = [bus_states EXCEPT ![dir][index + 1].enabled = state]
       ELSE UNCHANGED bus_states
    /\ UNCHANGED <<processor_state, view, reply, chanVars, wrapVars, splitVars, layoutVars, compVars>>

\* speaker_arrangement_to_bus_format returns a format for every arrangement
\* of the list
HasBusFormats(arrangements) ==
    \A k \in 1 .. Len(arrangements) :
       SpeakerArrangementToBusFormat(arrangements[k]) # NoFormat

\* the candidate setBusArrangements builds
Candidate(ins, outs) ==
    [inputs |-> [k \in 1 .. Len(ins) |-> SpeakerArrangementToBusFormat(ins[k])],
     outputs |-> [k \in 1 .. Len(outs) |-> SpeakerArrangementToBusFormat(outs[k])]]

\* the arrangement lists a host may propose for one direction
HostArrangements == {<<>>} \cup {<<a>> : a \in Arrangements}

\* Wrapper::setBusArrangements; nothing in it looks at whether the plugin
\* is active
SetBusArrangements(ins, outs) ==
    /\ NoCallRunning
    /\ LET candidate == Candidate(ins, outs)
           found == /\ Len(ins) = BusListInputs /\ Len(outs) = BusListOutputs
                    /\ HasBusFormats(ins) /\ HasBusFormats(outs)
                    /\ candidate \in BusConfigSet
       IN  /\ IF found
              THEN bus_states' =
                      [inputs |-> [k \in 1 .. Len(bus_states.inputs) |->
                                     [bus_states.inputs[k] EXCEPT
                                        !.format = candidate.inputs[k]]],
                       outputs |-> [k \in 1 .. Len(bus_states.outputs) |->
                                     [bus_states.outputs[k] EXCEPT
                                        !.format = candidate.outputs[k]]]]
              ELSE UNCHANGED bus_states
           /\ reply' = [op |-> "Wrapper::setBusArrangements", inputs |-> ins,
                        outputs |-> outs, config_id |-> 0,
                        result |-> IF found THEN "kResultTrue" ELSE "kResultFalse"]
    /\ UNCHANGED <<processor_state, view, chanVars, wrapVars, splitVars, layoutVars, compVars>>

\* the bus arrangement or configuration call returns to the host
ReplyReturn ==
    /\ reply.op # "none"
    /\ reply' = NoReply
    /\ UNCHANGED <<bus_states, processor_state, view, chanVars, wrapVars,
                   splitVars, layoutVars, compVars>>

\* Wrapper::getBusArrangement
GetBusArrangement(dir, index) ==
    IF index < Len(bus_states[dir])
    THEN [result |-> "kResultOk",
          arr |-> BusFormatToSpeakerArrangement(bus_states[dir][index + 1].format)]
    ELSE [result |-> "kInvalidArgument", arr |-> "none"]

\* Wrapper::getBusInfo for an audio bus: the channel count it reports
GetBusInfo(dir, index) ==
    IF index < Len(bus_states[dir])
    THEN [result |-> "kResultOk", channelCount |-> bus_states[dir][index + 1].format]
    ELSE [result |-> "kInvalidArgument", channelCount |-> 0]

\* Wrapper::setupProcessing
SetupProcessing(maxSamplesPerBlock) ==
    /\ HostMayConfigure
    /\ processor_state' = [processor_state EXCEPT !.max_buffer_size = maxSamplesPerBlock]
    /\ UNCHANGED <<bus_states, view, reply, chanVars, wrapVars, splitVars, layoutVars, compVars>>

\* Wrapper::setActive: the processor is dropped, or it is created and the
\* channel ranges and the scratch capacity are prepared
SetActive(state) ==
    /\ NoCallRunning
    /\ wActive' = state
    /\ IF state
       THEN LET ins == TotalChannels(bus_states.inputs)
                outs == TotalChannels(bus_states.outputs)
                size == ScratchBufferSize(processor_state.max_buffer_size, ins, outs)
                cap == processor_state.scratch_capacity
            IN  processor_state' =
                   [processor_state EXCEPT
                      !.input_indices = BusIndices(bus_states.inputs, 0),
                      !.input_channels = ins,
                      !.output_indices = BusIndices(bus_states.outputs, 0),
                      !.output_channels = outs,
                      !.scratch_capacity = VecShrinkTo(VecReserve(cap, 0, size), 0, size)]
       ELSE UNCHANGED processor_state
    /\ UNCHANGED <<pval, param_states, wEvents, wMain, wAudio, wcalls, whist,
                   bus_states, view, reply, chanVars, splitVars, layoutVars, compVars>>

(* ---- audio thread: Wrapper::process ---- *)
\* Wrapper::process without a processor: kNotInitialized
WrapProcessNotInitialized ==
    /\ wAudio.op = "none" /\ ~wActive
    /\ UNCHANGED vars

\* Wrapper::process is called: events.clear(), then the drain of the
\* processor's set begins
WrapProcess ==
    /\ wAudio.op = "none" /\ wActive /\ wcalls < MaxWCalls
    /\ wAudio' = StartCall("process", 0, wcalls + 1)
    /\ wcalls' = wcalls + 1
    /\ wEvents' = <<>>
    /\ whist' = [whist EXCEPT !.started["processor"] = @ + 1]
    /\ UNCHANGED <<pval, param_states, wActive, wMain, chanVars, routeVars, splitVars, layoutVars, compVars>>

\* process, drain_indices: next index of the processor's drain
WrapAudioDrainTest ==
    /\ CurStep(wAudio) = "drain" /\ wAudio.sub = "test"
    /\ LET which == ProcessDrains
           bits == param_states[which]
       IN  /\ wAudio' = DrainThread(wAudio, bits)
           /\ param_states' = [param_states EXCEPT ![which] = DrainBits(wAudio, bits)]
           /\ whist' = DrainHist(whist, wAudio, bits, "processor", which)
    /\ UNCHANGED <<pval, wActive, wEvents, wMain, wcalls, chanVars, routeVars, splitVars, layoutVars, compVars>>

\* process, body of the drain loop: accessor.get, then events.push at
\* offset 0
WrapAudioDrainRead ==
    /\ CurStep(wAudio) = "drain" /\ wAudio.sub = "read"
    /\ wEvents' = Append(wEvents, [idx |-> wAudio.cur, val |-> pval[wAudio.cur],
                                   offset |-> 0])
    /\ whist' = HRead(whist, "processor", pval[wAudio.cur])
    /\ wAudio' = [wAudio EXCEPT !.sub = "test", !.cur = @ + 1]
    /\ UNCHANGED <<pval, param_states, wActive, wMain, wcalls, chanVars, routeVars, splitVars, layoutVars, compVars>>

\* process reads the block's inputParameterChanges
WrapReadPoints(pts) ==
    /\ CurStep(wAudio) = "points" /\ wAudio.sub = "test"
    /\ wAudio' = IF pts = <<>> THEN StepDone(wAudio)
                 ELSE [wAudio EXCEPT !.pts = pts, !.sub = "store"]
    /\ UNCHANGED <<pval, param_states, wActive, wEvents, wMain, wcalls, whist, chanVars, routeVars, splitVars, layoutVars, compVars>>

\* process, a host parameter point: accessor.set
WrapPointStore ==
    /\ CurStep(wAudio) = "points" /\ wAudio.sub = "store"
    /\ LET pt == Head(wAudio.pts)
       IN  /\ pval' = [pval EXCEPT ![pt.idx] = pt.val]
           /\ whist' = HStore(whist, pt.idx, pt.val)
    /\ wAudio' = [wAudio EXCEPT !.sub = "mark"]
    /\ UNCHANGED <<param_states, wActive, wEvents, wMain, wcalls, chanVars, routeVars, splitVars, layoutVars, compVars>>

\* process, a host parameter point: dirty_editor.set, then events.push at
\* the point's offset
WrapPointMark ==
    /\ CurStep(wAudio) = "points" /\ wAudio.sub = "mark"
    /\ LET pt == Head(wAudio.pts)
           rest == [wAudio EXCEPT !.pts = Tail(@), !.sub = "store"]
       IN  /\ param_states' = [param_states EXCEPT !["editor"] = BitsetSet(@, pt.idx)]
           /\ whist' = HMark(whist, "editor", pt.idx, pt.val)
           /\ wEvents' = Append(wEvents, pt)
           /\ wAudio' = IF rest.pts = <<>> THEN StepDone(rest) ELSE rest
    /\ UNCHANGED <<pval, wActive, wMain, wcalls, chanVars, routeVars, splitVars, layoutVars, compVars>>

\* process, after the events are gathered: sort_by_key(offset); a block
\* with samples whose bus or channel counts fail the checks (~ok) returns
\* kInvalidArgument and leaves the events; otherwise processor.process gets
\* the events and they are cleared
WrapFinish(ok) ==
    /\ CurStep(wAudio) = "finish"
    /\ LET sorted == SortByOffset(wEvents)
       IN  IF ok
           THEN /\ whist' = [whist EXCEPT !.delivered = sorted]
                /\ wEvents' = <<>>
           ELSE /\ wEvents' = sorted
                /\ UNCHANGED whist
    /\ wAudio' = StepDone(wAudio)
    /\ UNCHANGED <<pval, param_states, wActive, wMain, wcalls, chanVars, routeVars, splitVars, layoutVars, compVars>>

NextWrap ==
    \/ \E i \in Idx : WrapPerformEdit(i)
    \/ \E i \in Idx : WrapSetParamNormalized(i)
    \/ WrapPollParams
    \/ WrapMainStore
    \/ WrapMainMark
    \/ WrapMainDrainTest
    \/ WrapMainDrainRead
    \/ \E state \in BOOLEAN : SetActive(state)
    \/ WrapProcessNotInitialized
    \/ WrapProcess
    \/ \E pts \in HostPoints(wAudio.val) : WrapReadPoints(pts)
    \/ WrapAudioDrainTest
    \/ WrapAudioDrainRead
    \/ WrapPointStore
    \/ WrapPointMark
    \/ \E ok \in BOOLEAN : WrapFinish(ok)

(* ---- properties of the wrapper's parameter flow ---- *)
\* C2: write-then-publish.  Every mark pending in a dirty set was published
\* after its value was stored, and the value a consumer reads for an index
\* its drain yielded (and cleared) is at least as new, in the order of the
\* stores to that parameter, as the value of every set whose mark the drain
\* cleared.
WriteThenPublish ==
    /\ \A r \in Roles, i \in Idx : \A m \in whist.markers[r][i] :
          PosIn(whist.stores[i], m) <= Len(whist.stores[i])
    /\ \A r \in Roles :
          LET rd == whist.read[r]
          IN  rd.done => \A m \in rd.markers :
                 PosIn(whist.stores[rd.idx], rd.val) >= PosIn(whist.stores[rd.idx], m)

\* the audio thread's drain cleared the mark of the set of value 1 and then
\* read value 2, stored by a later set that has not marked yet
WriteThenPublishWitness ==
    /\ whist.read["processor"].done
    /\ whist.read["processor"].markers = {1}
    /\ whist.read["processor"].val = 2
    /\ wMain.op = "perform_edit" /\ CurStep(wMain) = "mark_processor"

\* C3: drain against concurrent mark.  For each consumer and index, the
\* oldest mark not yet yielded landed no earlier than during the consumer's
\* latest completed drain (so a mark is yielded by the drain it landed in or
\* by the next one), a set bit is a mark not yet yielded, and no index is
\* yielded twice without a mark in between.
DrainVsMark ==
    \A r \in Roles, i \in Idx :
       /\ whist.unyielded[r][i] => whist.completed[r] <= whist.markDrain[r][i]
       /\ whist.unyielded[r][i] = param_states[r][i]
       /\ whist.yieldsSince[r][i] <= 1

\* index A was marked while the audio thread's first drain was in progress
\* and had passed A; the drain completed without it and the second drain
\* yielded it
DrainVsMarkWitness ==
    LET rd == whist.read["processor"]
    IN  /\ rd.mid /\ rd.markDrain = 1 /\ rd.yieldDrain = 2
        /\ whist.completed["processor"] = 1
        /\ ~whist.unyielded["processor"][rd.idx]
        /\ rd.done

(* ====== bus topology: Component (vst3/component.rs), CLAP instance ====== *)
\* PluginInfo::buses of the plugin, by direction: like the gain example's
\* main in-out bus, followed by a side-chain input
InfoBuses == <<"InOut", "In">>

\* PluginInfo::layouts: a format for every bus
InfoLayouts == <<<<"Stereo", "Stereo">>, <<"Mono", "Mono">>, <<"Stereo", "Mono">>>>

\* Component::new, the loop over info.buses: the (0-based) bus indices of
\* one direction
RECURSIVE BusMap(_, _, _)
BusMap(buses, index, dir) ==
    IF buses = <<>> THEN <<>>
    ELSE (IF Head(buses) \in {dir, "InOut"} THEN <<index>> ELSE <<>>)
         \o BusMap(Tail(buses), index + 1, dir)

InputBusMap == BusMap(InfoBuses, 0, "In")
OutputBusMap == BusMap(InfoBuses, 0, "Out")

\* info.layouts.iter().cloned().collect::<HashSet<_>>()
LayoutSet == {InfoLayouts[k] : k \in 1 .. Len(InfoLayouts)}

\* speaker_arrangement_to_format (vst3/component.rs)
SpeakerArrangementToFormat(speaker_arrangement) ==
    CASE speaker_arrangement = "kMono" -> "Mono"
      [] speaker_arrangement = "kStereo" -> "Stereo"
      [] OTHER -> "None"

\* format_to_speaker_arrangement (vst3/component.rs): both arms are kStereo
FormatToSpeakerArrangement(format) ==
    CASE format = "Mono" -> "kStereo"
      [] format = "Stereo" -> "kStereo"

\* Format::channel_count
ChannelCount(format) == IF format = "Mono" THEN 1 ELSE 2

\* port_type_from_format (clap/instance.rs)
PortTypeFromFormat(format) == IF format = "Mono" THEN "MONO" ELSE "STEREO"

\* Component::setBusArrangements, the loop over info.buses: the candidate
\* layout, or the early return of kResultFalse
RECURSIVE BuildCandidate(_, _, _)
BuildCandidate(buses, inputs, outputs) ==
    IF buses = <<>> THEN [ok |-> TRUE, formats |-> <<>>]
    ELSE LET dir == Head(buses)
             mismatch == dir = "InOut" /\ Head(inputs) # Head(outputs)
             arrangement == IF dir = "In" THEN Head(inputs) ELSE Head(outputs)
             format == SpeakerArrangementToFormat(arrangement)
             rest == BuildCandidate(Tail(buses),
                        IF dir \in {"In", "InOut"} THEN Tail(inputs) ELSE inputs,
                        IF dir \in {"Out", "InOut"} THEN Tail(outputs) ELSE outputs)
         IN  IF mismatch \/ format = "None" THEN [ok |-> FALSE, formats |-> <<>>]
             ELSE [ok |-> rest.ok, formats |-> <<format>> \o rest.formats]

\* (mutant) a candidate is accepted when every bus has a format that some
\* layout gives to that bus
LayoutSetContainsPerBus(candidate) ==
    \A b \in 1 .. Len(candidate) :
       \E layout \in LayoutSet : b <= Len(layout) /\ layout[b] = candidate[b]

\* self.layout_set.contains(&candidate)
LayoutSetContains(candidate) == candidate \in LayoutSet

\* (mutant) the candidate is stored whether or not the set contains it
LayoutAfterUnchecked(found, candidate, layout) == candidate

\* main_thread_state.config.layout after the membership test
LayoutAfter(found, candidate, layout) == IF found THEN candidate ELSE layout

\* the arrangement lists a host may pass to the Component for one direction
ComponentArrangements ==
    UNION {[1 .. n -> Arrangements] : n \in 1 .. Len(InputBusMap)}

\* Component::setBusArrangements
ComponentSetBusArrangements(inputs, outputs) ==
    /\ NoCallRunning
    /\ LET counts == /\ Len(inputs) = Len(InputBusMap)
                     /\ Len(outputs) = Len(OutputBusMap)
           candidate == IF counts THEN BuildCandidate(InfoBuses, inputs, outputs)
                        ELSE [ok |-> FALSE, formats |-> <<>>]
           found == candidate.ok /\ LayoutSetContains(candidate.formats)
       IN  /\ config_layout' =
                 IF candidate.ok
                 THEN LayoutAfter(found, candidate.formats, config_layout)
                 ELSE config_layout
           /\ reply' = [op |-> "Component::setBusArrangements", inputs |-> inputs,
                        outputs |-> outputs, config_id |-> 0,
                        result |-> IF ~counts THEN "kInvalidArgument"
                                   ELSE IF found THEN "kResultTrue"
                                   ELSE "kResultFalse"]
    /\ UNCHANGED <<layout_index, buffer_data, ports, bus_states, processor_state,
                   view, chanVars, wrapVars, splitVars, compVars>>

\* Component::getBusArrangement
ComponentGetBusArrangement(layout, dir, index) ==
    LET bus_map == IF dir = "In" THEN InputBusMap ELSE OutputBusMap
    IN  IF index < Len(bus_map) /\ bus_map[index + 1] < Len(layout)
        THEN [result |-> "kResultOk",
              arr |-> FormatToSpeakerArrangement(layout[bus_map[index + 1] + 1])]
        ELSE [result |-> "kInvalidArgument", arr |-> "none"]

\* Component::getBusInfo for an audio bus: the channel count it reports
ComponentGetBusInfo(layout, dir, index) ==
    LET bus_map == IF dir = "In" THEN InputBusMap ELSE OutputBusMap
    IN  IF index < Len(bus_map) /\ bus_map[index + 1] < Len(layout)
        THEN [result |-> "kResultOk",
              channelCount |-> ChannelCount(layout[bus_map[index + 1] + 1])]
        ELSE [result |-> "kInvalidArgument", channelCount |-> 0]

\* the configuration ids a CLAP host may select
ConfigIds == 0 .. Len(InfoLayouts)

\* PluginAudioPortsConfigImpl::select (clap/instance.rs)
Select(config_id) ==
    /\ NoCallRunning /\ ~active
    /\ LET some == config_id < Len(InfoLayouts)
       IN  /\ layout_index' = IF some THEN config_id ELSE layout_index
           /\ reply' = [NoReply EXCEPT !.op = "select", !.config_id = config_id,
                                       !.result = IF some THEN "Ok" ELSE "Err"]
    /\ UNCHANGED <<config_layout, buffer_data, ports, bus_states, processor_state,
                   view, chanVars, wrapVars, splitVars, compVars>>

\* PluginAudioPortsImpl::get (clap/instance.rs): the port type written for
\* a port, or nothing
\* PluginAudioPortsImpl::get, the channel_count it writes for a port it
\* knows: the literal 0, whatever the format of the bus
AudioPortsGetChannelCount(index_of_layout, dir, index) ==
    LET bus_map == IF dir = "In" THEN InputBusMap ELSE OutputBusMap
        layout == InfoLayouts[index_of_layout + 1]
    IN  IF index < Len(bus_map) /\ bus_map[index + 1] < Len(layout)
        THEN 0
        ELSE NoFormat

AudioPortsGet(index_of_layout, dir, index) ==
    LET bus_map == IF dir = "In" THEN InputBusMap ELSE OutputBusMap
        layout == InfoLayouts[index_of_layout + 1]
    IN  IF index < Len(bus_map) /\ bus_map[index + 1] < Len(layout)
        THEN PortTypeFromFormat(layout[bus_map[index + 1] + 1])
        ELSE "none"

\* no CLAP process call is returning
NoPorts == [result |-> "none", inputs |-> <<>>, outputs |-> <<>>, invoked |-> FALSE,
            frames |-> 0, same |-> <<>>, buffer_ptrs |-> <<>>, copies |-> <<>>]

\* ProcessState::activate, the loop over zip(buses, layout.formats): the
\* channel range of every bus
RECURSIVE BufferData(_, _, _)
BufferData(buses, formats, total_channels) ==
    IF buses = <<>> \/ formats = <<>> THEN <<>>
    ELSE LET channel_count == ChannelCount(Head(formats))
         IN  <<[buffer_type |-> IF Head(buses) = "In" THEN "Const" ELSE "Mut",
                start |-> total_channels,
                end |-> total_channels + channel_count]>>
             \o BufferData(Tail(buses), Tail(formats), total_channels + channel_count)

\* the host has no CLAP call running and nothing waits in plugin_params or
\* processor_params
PortsQuiet ==
    /\ NoCallRunning
    /\ mainT.pc = "idle" /\ audioT.pc = "idle"
    /\ \A i \in Idx : ~plugin_params.dirty[i] /\ ~processor_params.dirty[i]

\* ProcessState::activate with no parameter change pending: buffer_data is
\* laid out for the selected layout and the processor is created
ActivatePorts ==
    /\ PortsQuiet /\ ~active
    /\ buffer_data' = BufferData(InfoBuses, InfoLayouts[layout_index + 1], 0)
    /\ processor' = plugin
    /\ active' = TRUE
    /\ UNCHANGED <<plugin_params, processor_params, plugin, mainT, audioT, calls,
                   hist, config_layout, layout_index, ports, wrapVars, routeVars,
                   splitVars, compVars>>

\* the host deactivates the CLAP plugin: the ProcessState is dropped
DeactivatePorts ==
    /\ PortsQuiet /\ active
    /\ buffer_data' = <<>>
    /\ processor' = [i \in Idx |-> 0]
    /\ active' = FALSE
    /\ UNCHANGED <<plugin_params, processor_params, plugin, mainT, audioT, calls,
                   hist, config_layout, layout_index, ports, wrapVars, routeVars,
                   splitVars, compVars>>

\* the channel counts of the ports a CLAP host may pass for one direction
HostPorts == UNION {[1 .. n -> 1 .. 2] : n \in 1 .. Len(InputBusMap)}

\* ProcessState::process, the loop over zip(bus_map, ports): no port has a
\* channel count other than that of its bus in buffer_data
PortChannelsMatch(bus_map, port_channels) ==
    \A k \in 1 .. Min(Len(bus_map), Len(port_channels)) :
       LET data == buffer_data[bus_map[k] + 1]
       IN  port_channels[k] = data.end - data.start

\* for every channel of an input-output bus, whether the host passed the
\* pointer of the output port's channel for the input port's channel too
HostSame == [1 .. 2 -> BOOLEAN]

\* (mutant) the input samples of an input-output bus are never copied
ChannelCopiesNone(bus_index, c, n, same, len) == <<>>

\* the BusDir::InOut branch: for channels c .. n of the bus, a copy of len
\* samples from the input channel into the output channel wherever
\* src.as_ptr() != dst
RECURSIVE ChannelCopies(_, _, _, _, _)
ChannelCopies(bus_index, c, n, same, len) ==
    IF c > n THEN <<>>
    ELSE (IF same[c] THEN <<>>
          ELSE <<[bus |-> bus_index, channel |-> c, len |-> len]>>)
         \o ChannelCopies(bus_index, c + 1, n, same, len)

\* the loop over zip(input_bus_map, input_ports): the copies it makes
RECURSIVE PortCopies(_, _, _, _)
PortCopies(bus_map, inputs, same, len) ==
    IF bus_map = <<>> \/ inputs = <<>> THEN <<>>
    ELSE (IF InfoBuses[Head(bus_map) + 1] = "InOut"
          THEN ChannelCopies(Head(bus_map), 1, Head(inputs), same, len)
          ELSE <<>>)
         \o PortCopies(Tail(bus_map), Tail(inputs), same, len)

\* buffer_ptrs after both loops: the slots of an In bus hold the input
\* port's channel pointers, those of an InOut (or Out) bus the output
\* port's
BufferPtrs ==
    LET total == IF buffer_data = <<>> THEN 0 ELSE buffer_data[Len(buffer_data)].end
    IN  [slot \in 1 .. total |->
           LET b == CHOOSE b \in 1 .. Len(buffer_data) :
                       buffer_data[b].start < slot /\ slot <= buffer_data[b].end
           IN  [side |-> IF InfoBuses[b] = "In" THEN "input" ELSE "output",
                bus |-> b - 1,
                channel |-> slot - buffer_data[b].start,
                buffer_type |-> buffer_data[b].buffer_type]]

\* ProcessState::process with f32 ports, no events and no parameter change
\* pending: the port checks, the pointer table and the copies of the
\* input-output buses, then processor.process
ProcessPorts(inputs, outputs, same, len) ==
    /\ PortsQuiet /\ active
    /\ LET ok == /\ Len(inputs) = Len(InputBusMap)
                 /\ Len(outputs) = Len(OutputBusMap)
                 /\ PortChannelsMatch(OutputBusMap, outputs)
                 /\ PortChannelsMatch(InputBusMap, inputs)
       IN  ports' = [result |-> IF ok THEN "Ok" ELSE "Err", inputs |-> inputs,
                     outputs |-> outputs, invoked |-> ok,
                     frames |-> len, same |-> same,
                     buffer_ptrs |-> IF ok THEN BufferPtrs ELSE <<>>,
                     copies |-> IF ok THEN PortCopies(InputBusMap, inputs, same, len)
                                ELSE <<>>]
    /\ UNCHANGED <<chanVars, config_layout, layout_index, buffer_data, wrapVars,
                   routeVars, splitVars, compVars>>

\* ProcessState::process returns
PortsReturn ==
    /\ ports.result # "none"
    /\ ports' = NoPorts
    /\ UNCHANGED <<chanVars, config_layout, layout_index, buffer_data, wrapVars,
                   routeVars, splitVars, compVars>>

\* Component::new and MainThreadState::new: the first layout is active and
\* there is no ProcessState
LayoutInit ==
    /\ config_layout = InfoLayouts[1]
    /\ layout_index = 0
    /\ buffer_data = <<>>
    /\ ports = NoPorts

NextLayout ==
    \/ \E inputs \in ComponentArrangements, outputs \in ComponentArrangements :
          ComponentSetBusArrangements(inputs, outputs)
    \/ \E ins \in HostArrangements, outs \in HostArrangements :
          SetBusArrangements(ins, outs)
    \/ \E config_id \in ConfigIds : Select(config_id)
    \/ ReplyReturn

(* ============ Component (vst3/component.rs): whole handlers ============= *)
\* The Component holds the same fields as the CLAP instance: plugin_params,
\* processor_params, the plugin of the main thread and the processor of the
\* audio thread.  Here its handlers run one at a time.

\* no Component call is returning
NoBlock == [op |-> "none", result |-> "none", samples |-> 0, changes |-> <<>>,
            events |-> <<>>, repeats |-> 0, loaded |-> <<>>, synced |-> <<>>]

\* Vec::with_capacity(4096) of ProcessState::events
EventsCapacity == 4096

\* how often the host repeats the point of a queue of one point (same
\* offset, same value): not at all, or often enough for the queue to hold
\* one point more than ProcessState::events has room for
PointRepeats(changes) ==
    IF Len(changes) = 1 /\ Len(changes[1].offsets) = 1
    THEN {0, EventsCapacity} ELSE {0}

\* ParamValues::poll run to its end from index i: the pairs it yields
RECURSIVE Poll(_, _)
Poll(pv, i) ==
    IF i >= NParams THEN <<>>
    ELSE (IF pv.dirty[i] THEN <<<<i, PVLoad(pv, i)>>>> ELSE <<>>) \o Poll(pv, i + 1)

\* the ParamValues once that poll has cleared every bit it found
RECURSIVE Polled(_, _)
Polled(pv, i) ==
    IF i >= NParams THEN pv
    ELSE Polled(IF pv.dirty[i] THEN PVTestAndClear(pv, i) ELSE pv, i + 1)

\* ParamValues::set
PVSet(pv, i, v) == PVMark(PVStore(pv, i, v), i)

\* set_param for every pair of a list, in order
RECURSIVE SetParams(_, _)
SetParams(params, pairs) ==
    IF pairs = <<>> THEN params
    ELSE SetParams([params EXCEPT ![Head(pairs)[1]] = Head(pairs)[2]], Tail(pairs))

\* the sample offsets a host may give to a point of a block of n samples:
\* those of the block and one on either side
PointOffsets(n) == -1 .. n

\* the points of one parameter queue: one or two, offsets non-decreasing
QueuePoints(n) ==
    {<<a>> : a \in PointOffsets(n)}
       \cup {p \in PointOffsets(n) \X PointOffsets(n) : p[1] <= p[2]}

\* inputParameterChanges of a block of n samples: at most two queues, each
\* for one parameter
ParameterChanges(n) ==
    LET queues == [index : Idx, offsets : QueuePoints(n)]
    IN  {<<>>} \cup {<<q>> : q \in queues}
           \cup {p \in queues \X queues : p[1].index # p[2].index}

\* Component::process, the loops over the queues and their points: the
\* events pushed, in arrival order; the value of a point is its arrival
\* number in the block
RECURSIVE CollectEvents(_, _)
CollectEvents(changes, arrived) ==
    IF changes = <<>> THEN <<>>
    ELSE LET q == Head(changes)
         IN  [k \in 1 .. Len(q.offsets) |->
                [time |-> q.offsets[k], index |-> q.index, value |-> arrived + k]]
             \o CollectEvents(Tail(changes), arrived + Len(q.offsets))

\* plugin_params after self.plugin_params.set for every event
RECURSIVE SetAll(_, _)
SetAll(pv, events) ==
    IF events = <<>> THEN pv
    ELSE SetAll(PVSet(pv, Head(events).index, Head(events).value), Tail(events))

\* the pairs (index, value) of a list of events
EventPairs(events) == [k \in 1 .. Len(events) |-> <<events[k].index, events[k].value>>]

(* ------- CLAP instance, parameter values at the host boundary ---------- *)
\* the largest number of steps of a stepped parameter
MaxSteps == 3

\* defaults and plain values are the multiples of 1 / DefaultGrid in [0, 1]
DefaultGrid == 4

\* an f64 that is a fraction num / den
Fraction(num, den) == [num |-> num, den |-> den]

\* f64::floor of a fraction with num >= 0
Floor(r) == r.num \div r.den

\* map_param_in: (value + 0.5) / steps for a stepped parameter, else the
\* value; the host's value of a stepped parameter is an integer
MapParamIn(steps, value) ==
    IF steps > 0
    THEN Fraction(2 * value.num + value.den, 2 * value.den * steps)
    ELSE value

\* map_param_out: (value * steps).floor() for a stepped parameter, else
\* the value
MapParamOut(steps, value) ==
    IF steps > 0
    THEN Fraction(Floor(Fraction(value.num * steps, value.den)), 1)
    ELSE value

\* the parameters a plugin may declare
ParamInfos ==
    [steps : 0 .. MaxSteps,
     default : {Fraction(n, DefaultGrid) : n \in 0 .. DefaultGrid}]

NoTold == [op |-> "none", min_value |-> 0, max_value |-> 0,
           value |-> Fraction(0, 1), host |-> Fraction(0, 1)]

\* PluginMainThreadParams::get_info: the range and the default the host is
\* given
GetInfo ==
    /\ told' = [NoTold EXCEPT !.op = "get_info",
                  !.min_value = 0,
                  !.max_value = IF param.steps > 0
                                THEN (IF param.steps > 2 THEN param.steps ELSE 2) - 1
                                ELSE 1,
                  !.value = MapParamOut(param.steps, param.default)]
    /\ UNCHANGED <<param, param_value, chanVars, wrapVars, routeVars, splitVars,
                   layoutVars, editor_params, block, lifeVars, poolVars, winVars>>

\* the values a host sends for the parameter: the integers of the range
\* get_info gives for a stepped parameter, else 0, 1/2 and 1
HostValues ==
    IF param.steps > 0
    THEN {Fraction(v, 1) :
             v \in 0 .. (IF param.steps > 2 THEN param.steps ELSE 2) - 1}
    ELSE {Fraction(0, 1), Fraction(1, 2), Fraction(1, 1)}

\* PluginMainThreadParams::flush, one ParamValue event: the plugin is set
\* to map_param_in of the host's value
FlushValue(host) ==
    /\ param_value' = MapParamIn(param.steps, host)
    /\ told' = [NoTold EXCEPT !.op = "flush", !.host = host]
    /\ UNCHANGED <<param, chanVars, wrapVars, routeVars, splitVars,
                   layoutVars, editor_params, block, lifeVars, poolVars, winVars>>

\* PluginMainThreadParams::get_value: map_param_out of the plugin's value
GetValue ==
    /\ told' = [NoTold EXCEPT !.op = "get_value",
                  !.value = MapParamOut(param.steps, param_value)]
    /\ UNCHANGED <<param, param_value, chanVars, wrapVars, routeVars, splitVars,
                   layoutVars, editor_params, block, lifeVars, poolVars, winVars>>

\* the plugin holds the parameter's default
MapInit ==
    /\ param = [steps |-> 0, default |-> Fraction(0, DefaultGrid)]
    /\ param_value = Fraction(0, DefaultGrid)
    /\ told = NoTold

NextMap ==
    \/ GetInfo
    \/ \E host \in HostValues : FlushValue(host)
    \/ GetValue

(* ------- graphics ThreadPool (graphics/src/thread_pool.rs) ------------- *)
\* the most worker threads of a pool
MaxThreads == 2

\* the most tasks spawned in one scope call
MaxTasks == 2

\* the most scope calls on one pool
MaxScopes == 2

\* AtomicPtr::new(ptr::null_mut())
NullPanic == 0

\* a task: its number in the scope call, whether its closure panics, and
\* the scope call that spawned it
Task(id, panics, epoch) == [id |-> id, panics |-> panics, epoch |-> epoch]

NoTask == Task(0, FALSE, 0)

\* a worker thread waiting in receiver.recv()
WorkerIdle == [pc |-> "recv", task |-> NoTask]

NoPoolHist == [decrements |-> [id \in 1 .. MaxTasks |-> 0],
               spawned |-> 0, panicked |-> FALSE, blocked |-> FALSE]

\* ThreadPool::with_threads(num_threads)
WithThreads(num_threads) ==
    /\ task_count = 0
    /\ zero_tasks = FALSE
    /\ panic = NullPanic
    /\ sender = TRUE
    /\ receiver = <<>>
    /\ handles = [w \in 1 .. num_threads |-> WorkerIdle]
    /\ scopeT = [pc |-> "idle", epoch |-> 0, result |-> "Ok", task |-> NoTask,
                 outcome |-> "none", payload |-> NullPanic]
    /\ pool_hist = NoPoolHist

poolRest == <<chanVars, wrapVars, routeVars, splitVars, layoutVars,
              editor_params, block, lifeVars, mapVars, winVars>>

\* ThreadPool::scope is entered and the closure f starts
ScopeBegin ==
    /\ scopeT.pc \in {"idle", "returned"}
    /\ sender
    /\ scopeT.epoch < MaxScopes
    /\ scopeT' = [scopeT EXCEPT !.pc = "closure", !.epoch = @ + 1,
                                !.result = "Ok", !.outcome = "none",
                                !.payload = NullPanic]
    /\ pool_hist' = NoPoolHist
    /\ UNCHANGED <<task_count, zero_tasks, panic, sender, receiver, handles, poolRest>>

\* Scope::spawn, first half: the task is counted under the lock
SpawnCount(panics) ==
    /\ scopeT.pc = "closure"
    /\ pool_hist.spawned < MaxTasks
    /\ task_count' = task_count + 1
    /\ scopeT' = [scopeT EXCEPT !.pc = "send",
                    !.task = Task(pool_hist.spawned + 1, panics, scopeT.epoch)]
    /\ pool_hist' = [pool_hist EXCEPT !.spawned = @ + 1]
    /\ UNCHANGED <<zero_tasks, panic, sender, receiver, handles, poolRest>>

\* Scope::spawn, second half: the task is sent to the channel
SpawnSend ==
    /\ scopeT.pc = "send"
    /\ receiver' = Append(receiver, scopeT.task)
    /\ scopeT' = [scopeT EXCEPT !.pc = "closure", !.task = NoTask]
    /\ UNCHANGED <<task_count, zero_tasks, panic, sender, handles, pool_hist, poolRest>>

\* the closure f returns or panics; catch_unwind keeps the result
ClosureEnds(result) ==
    /\ scopeT.pc = "closure"
    /\ scopeT' = [scopeT EXCEPT !.pc = "check", !.result = result]
    /\ UNCHANGED <<task_count, zero_tasks, panic, sender, receiver, handles,
                   pool_hist, poolRest>>

\* (mutant) scope leaves the loop whatever the count
ScopeMayLeaveAlways(count) == TRUE

\* scope, the condition of its wait loop negated: *task_count == 0
ScopeMayLeave(count) == count = 0

\* scope, under the lock: the count is looked at, and the thread waits on
\* zero_tasks unless it is zero
ScopeCheck ==
    /\ scopeT.pc = "check"
    /\ IF ScopeMayLeave(task_count)
       THEN /\ scopeT' = [scopeT EXCEPT !.pc = "swap"]
            /\ UNCHANGED pool_hist
       ELSE /\ scopeT' = [scopeT EXCEPT !.pc = "waiting"]
            /\ pool_hist' = [pool_hist EXCEPT !.blocked = TRUE]
    /\ UNCHANGED <<task_count, zero_tasks, panic, sender, receiver, handles, poolRest>>

\* Condvar::wait returns after notify_one and the lock is taken again
ScopeWake ==
    /\ scopeT.pc = "waiting"
    /\ zero_tasks
    /\ scopeT' = [scopeT EXCEPT !.pc = "check"]
    /\ zero_tasks' = FALSE
    /\ UNCHANGED <<task_count, panic, sender, receiver, handles, pool_hist, poolRest>>

\* Condvar::wait returns without a notification (a spurious wakeup)
ScopeWakeSpurious ==
    /\ scopeT.pc = "waiting"
    /\ ~zero_tasks
    /\ scopeT' = [scopeT EXCEPT !.pc = "check"]
    /\ UNCHANGED <<task_count, zero_tasks, panic, sender, receiver, handles,
                   pool_hist, poolRest>>

\* scope after the loop: the stored panic is swapped out and re-raised,
\* else the closure's panic is re-raised, else scope returns normally
ScopeReturns ==
    /\ scopeT.pc = "swap"
    /\ panic' = NullPanic
    /\ scopeT' = [scopeT EXCEPT
                    !.pc = "returned",
                    !.outcome = IF panic # NullPanic THEN "task panic"
                                ELSE IF scopeT.result = "Err" THEN "closure panic"
                                ELSE "normal",
                    !.payload = panic]
    /\ UNCHANGED <<task_count, zero_tasks, sender, receiver, handles, pool_hist, poolRest>>

\* Drop for ThreadPool, first line: the sender is dropped
DropPool ==
    /\ scopeT.pc \in {"idle", "returned"}
    /\ sender
    /\ sender' = FALSE
    /\ scopeT' = [scopeT EXCEPT !.pc = "join"]
    /\ UNCHANGED <<task_count, zero_tasks, panic, receiver, handles, pool_hist, poolRest>>

\* Drop for ThreadPool: every handle has been joined
DropReturns ==
    /\ scopeT.pc = "join"
    /\ \A w \in DOMAIN handles : handles[w].pc = "exited"
    /\ scopeT' = [scopeT EXCEPT !.pc = "dropped"]
    /\ UNCHANGED <<task_count, zero_tasks, panic, sender, receiver, handles,
                   pool_hist, poolRest>>

\* worker loop, receiver.recv(): a task is taken, or the loop ends once the
\* channel is empty and the sender dropped
WorkerRecv(w) ==
    /\ w \in DOMAIN handles
    /\ handles[w].pc = "recv"
    /\ IF receiver # <<>>
       THEN /\ handles' = [handles EXCEPT ![w] = [pc |-> "run", task |-> Head(receiver)]]
            /\ receiver' = Tail(receiver)
       ELSE /\ ~sender
            /\ handles' = [handles EXCEPT ![w].pc = "exited"]
            /\ UNCHANGED receiver
    /\ UNCHANGED <<task_count, zero_tasks, panic, sender, scopeT, pool_hist, poolRest>>

\* worker loop, catch_unwind(task()): the task returns or panics
WorkerRun(w) ==
    /\ w \in DOMAIN handles
    /\ handles[w].pc = "run"
    /\ handles' = [handles EXCEPT ![w].pc = "count"]
    /\ pool_hist' = [pool_hist EXCEPT !.panicked = @ \/ handles[w].task.panics]
    /\ UNCHANGED <<task_count, zero_tasks, panic, sender, receiver, scopeT, poolRest>>

\* (mutant) the worker never notifies
NotifyNever(count) == FALSE

\* worker loop, under the lock: *task_count == 0 after the decrement
NotifyWhen(count) == count = 0

\* worker loop, under the lock: the count is decremented and the waiting
\* thread notified once it is zero
WorkerCount(w) ==
    /\ w \in DOMAIN handles
    /\ handles[w].pc = "count"
    /\ task_count' = task_count - 1
    /\ zero_tasks' = IF NotifyWhen(task_count - 1) /\ scopeT.pc = "waiting"
                     THEN TRUE ELSE zero_tasks
    /\ handles' = [handles EXCEPT ![w] =
                     IF handles[w].task.panics
                     THEN [pc |-> "store", task |-> handles[w].task]
                     ELSE WorkerIdle]
    /\ pool_hist' = [pool_hist EXCEPT !.decrements[handles[w].task.id] = @ + 1]
    /\ UNCHANGED <<panic, sender, receiver, scopeT, poolRest>>

\* worker loop, if let Err(err): the payload is stored unless one is
\* stored already (compare_exchange with null)
WorkerStore(w) ==
    /\ w \in DOMAIN handles
    /\ handles[w].pc = "store"
    /\ panic' = IF panic = NullPanic THEN handles[w].task.epoch ELSE panic
    /\ handles' = [handles EXCEPT ![w] = WorkerIdle]
    /\ UNCHANGED <<task_count, zero_tasks, sender, receiver, scopeT, pool_hist, poolRest>>

\* the steps of worker thread w
Worker(w) ==
    \/ WorkerRecv(w)
    \/ WorkerRun(w)
    \/ WorkerCount(w)
    \/ WorkerStore(w)

\* the steps of the thread that owns the pool, but for the host's choices
\* to open a scope and to drop the pool
Owner ==
    \/ \E panics \in BOOLEAN : SpawnCount(panics)
    \/ SpawnSend
    \/ \E result \in {"Ok", "Err"} : ClosureEnds(result)
    \/ ScopeCheck
    \/ ScopeWake
    \/ ScopeReturns
    \/ DropReturns

NextPool ==
    \/ ScopeBegin
    \/ \E panics \in BOOLEAN : SpawnCount(panics)
    \/ SpawnSend
    \/ \E result \in {"Ok", "Err"} : ClosureEnds(result)
    \/ ScopeCheck
    \/ ScopeWake
    \/ ScopeWakeSpurious
    \/ ScopeReturns
    \/ DropPool
    \/ DropReturns
    \/ \E w \in 1 .. MaxThreads : WorkerRecv(w)
    \/ \E w \in 1 .. MaxThreads : WorkerRun(w)
    \/ \E w \in 1 .. MaxThreads : WorkerCount(w)
    \/ \E w \in 1 .. MaxThreads : WorkerStore(w)

(* ------- X11 windows (window/src/x11.rs) ------------------------------- *)
\* the most window ids xcb_generate_id hands out
MaxWindows == 3

WindowIds == 1 .. MaxWindows

\* a window id not generated yet
NoWindow == [state |-> "none", handle |-> FALSE, creates |-> 0, destroys |-> 0]

NoWinReply == [op |-> "none", id |-> 0, result |-> "none", first |-> FALSE,
               destroyed |-> {}, removed |-> {}]

\* Application::open returned Ok
ApplicationOpen ==
    /\ app_open = TRUE
    /\ windows = {}
    /\ window_states = [id \in WindowIds |-> NoWindow]
    /\ win_reply = NoWinReply

winRest == <<chanVars, wrapVars, routeVars, splitVars, layoutVars,
             editor_params, block, lifeVars, mapVars, poolVars>>

\* xcb_generate_id: the next id
GenerateId == 1 + Cardinality({id \in WindowIds : window_states[id].state # "none"})

\* what the X server and the parent handle make of a Window::open
OpenOutcomes == {"Ok", "InvalidWindowHandle", "WindowCreation", "MapWindow"}

\* Window::open: InvalidWindowHandle and WindowCreation return before the
\* window is inserted into the table and its handler's create is called,
\* MapWindow returns after both
WindowOpen(outcome) ==
    /\ GenerateId \in WindowIds
    /\ LET window_id == GenerateId
       IN  IF ~app_open
           THEN /\ win_reply' = [NoWinReply EXCEPT !.op = "Window::open",
                                   !.result = "ApplicationClosed"]
                /\ UNCHANGED <<windows, window_states>>
           ELSE IF outcome = "InvalidWindowHandle"
           THEN /\ win_reply' = [NoWinReply EXCEPT !.op = "Window::open",
                                   !.result = outcome]
                /\ UNCHANGED <<windows, window_states>>
           ELSE IF outcome = "WindowCreation"
           THEN /\ win_reply' = [NoWinReply EXCEPT !.op = "Window::open",
                                   !.id = window_id, !.result = outcome]
                /\ window_states' = [window_states EXCEPT ![window_id].state = "failed"]
                /\ UNCHANGED windows
           ELSE /\ win_reply' = [NoWinReply EXCEPT !.op = "Window::open",
                                   !.id = window_id, !.result = outcome]
                /\ windows' = windows \cup {window_id}
                /\ window_states' =
                      [window_states EXCEPT ![window_id] =
                         [state |-> "open", handle |-> outcome = "Ok",
                          creates |-> 1, destroys |-> 0]]
    /\ UNCHANGED <<app_open, winRest>>

\* Window::close on a handle the caller holds; error: the X server
\* answers xcb_destroy_window_checked with an error
WindowClose(window_id, error) ==
    /\ window_states[window_id].handle
    /\ IF window_states[window_id].state = "open"
       THEN /\ window_states' = [window_states EXCEPT
                                   ![window_id].state = "closed",
                                   ![window_id].destroys = @ + 1]
            /\ windows' = windows \ {window_id}
            /\ win_reply' = [op |-> "Window::close", id |-> window_id,
                             result |-> IF error THEN "WindowClosed" ELSE "Ok",
                             first |-> TRUE,
                             destroyed |-> {window_id},
                             removed |-> windows \cap {window_id}]
       ELSE /\ win_reply' = [op |-> "Window::close", id |-> window_id,
                             result |-> "Ok", first |-> FALSE,
                             destroyed |-> {}, removed |-> {}]
            /\ UNCHANGED <<windows, window_states>>
    /\ UNCHANGED <<app_open, winRest>>

\* Application::close: the table is taken and every window in it closed;
\* errors: the windows whose xcb_destroy_window_checked fails
ApplicationClose(errors) ==
    /\ errors \subseteq windows
    /\ IF app_open
       THEN /\ app_open' = FALSE
            /\ windows' = {}
            /\ window_states' =
                  [id \in WindowIds |->
                     IF id \in windows /\ window_states[id].state = "open"
                     THEN [window_states[id] EXCEPT !.state = "closed",
                                                    !.destroys = @ + 1]
                     ELSE window_states[id]]
            /\ win_reply' = [op |-> "Application::close", id |-> 0,
                             result |-> IF errors # {} THEN "Close" ELSE "Ok",
                             first |-> TRUE,
                             destroyed |-> {id \in windows :
                                              window_states[id].state = "open"},
                             removed |-> windows]
       ELSE /\ errors = {}
            /\ win_reply' = [op |-> "Application::close", id |-> 0,
                             result |-> "Ok", first |-> FALSE,
                             destroyed |-> {}, removed |-> {}]
            /\ UNCHANGED <<app_open, windows, window_states>>
    /\ UNCHANGED winRest

NextWindow ==
    \/ \E outcome \in OpenOutcomes : WindowOpen(outcome)
    \/ \E window_id \in WindowIds, error \in BOOLEAN : WindowClose(window_id, error)
    \/ \E errors \in SUBSET WindowIds : ApplicationClose(errors)

(* ------- Component, threads and activation (vst3/component.rs) --------- *)
\* a thread that is inside no handler of the Component
IdleHandler == [op |-> "none", state |-> FALSE, index |-> 0, shape |-> <<>>,
                active |-> FALSE]

NoLife == [op |-> "none", result |-> "none", state |-> FALSE, shape |-> <<>>,
           steps |-> <<>>, synced |-> <<>>]

\* the handlers whose first statement is &mut *self.process_state.get()
ReferencesProcessState == {"activateBus", "setActive", "setProcessing", "process"}

\* the thread holds a reference to ProcessState
Holds(t) == t.op \in ReferencesProcessState

\* Config { layout, sample_rate, config_max_buffer_size }; the sample rate is not
\* read by any handler
Config(layout, size) == [layout |-> layout, max_buffer_size |-> size]

\* Component::new: both configs are the first layout with a maximum block
\* length of 0, and there is no processor
LifeInit ==
    /\ adapter = "none"
    /\ config_max_buffer_size = 0
    /\ process_config = Config(InfoLayouts[1], 0)
    /\ cMain = IdleHandler
    /\ cAudio = IdleHandler
    /\ life = NoLife

\* what the lifecycle handlers of the Component leave alone
lifeRest == <<wrapVars, routeVars, splitVars, layoutVars, editor_params, block,
              mainT, audioT, hist, adapter, otherVars>>

\* the host creates the plugin through one of the adapters
Create(format) ==
    /\ adapter = "none"
    /\ adapter' = format
    /\ UNCHANGED <<chanVars, wrapVars, routeVars, splitVars, layoutVars,
                   editor_params, block, config_max_buffer_size, process_config,
                   cMain, cAudio, life, otherVars>>

\* the per-bus channel counts of the buffers a host passes to process
HostShapes ==
    {[b \in 1 .. Len(layout) |-> ChannelCount(layout[b])] : layout \in LayoutSet}

\* the host's speaker arrangement for a format
HostArrangement(format) == IF format = "Mono" THEN "kMono" ELSE "kStereo"

\* the arrangements the host proposes: those of every layout of the plugin,
\* and one no layout has
HostProposals ==
    {[inputs |-> [k \in 1 .. Len(InputBusMap) |->
                    HostArrangement(layout[InputBusMap[k] + 1])],
      outputs |-> [k \in 1 .. Len(OutputBusMap) |->
                    HostArrangement(layout[OutputBusMap[k] + 1])]] : layout \in LayoutSet}
       \cup {[inputs |-> [k \in 1 .. Len(InputBusMap) |-> "k51"],
               outputs |-> [k \in 1 .. Len(OutputBusMap) |-> "k51"]]}

\* the calls the host makes on the main thread
MainCalls ==
    {[IdleHandler EXCEPT !.op = "setActive", !.state = b] : b \in BOOLEAN}
       \cup {[IdleHandler EXCEPT !.op = "activateBus", !.state = b, !.index = k] :
                b \in BOOLEAN, k \in {0, Len(InputBusMap)}}
       \cup {[IdleHandler EXCEPT !.op = "setupProcessing", !.index = n] :
                n \in 1 .. MaxBufferSize}

\* the calls the host makes on the audio thread
AudioCalls ==
    {[IdleHandler EXCEPT !.op = "setProcessing", !.state = b] : b \in BOOLEAN}
       \cup {[IdleHandler EXCEPT !.op = "process", !.shape = sh] : sh \in HostShapes}

\* the host enters a handler on the main thread; the handler's first
\* statements form its references.  The host calls setActive only while the
\* audio thread is in no call.
CallMain(call) ==
    /\ adapter = "vst3" /\ calls < MaxCalls
    /\ cMain.op = "none" /\ block.op = "none" /\ reply.op = "none"
    /\ call.op = "setActive" => cAudio.op = "none"
    /\ calls' = calls + 1
    /\ cMain' = [call EXCEPT !.active = active]
    /\ UNCHANGED <<lifeRest, plugin_params, processor_params, plugin, processor,
                   active, config_max_buffer_size, process_config, cAudio, life>>

\* the host enters a handler on the audio thread, never during setActive
CallAudio(call) ==
    /\ adapter = "vst3" /\ calls < MaxCalls
    /\ cAudio.op = "none"
    /\ cMain.op # "setActive"
    /\ calls' = calls + 1
    /\ cAudio' = [call EXCEPT !.active = active]
    /\ UNCHANGED <<lifeRest, plugin_params, processor_params, plugin, processor,
                   active, config_max_buffer_size, process_config, cMain, life>>

\* Component::setActive: deactivation drops the processor; activation
\* copies the main thread's config into ProcessState, polls plugin_params
\* into the plugin and creates the processor from the plugin
SetActiveReturns ==
    /\ cMain.op = "setActive"
    /\ IF cMain.state
       THEN LET synced == SetParams(plugin, Poll(plugin_params, 0))
            IN  /\ process_config' = Config(config_layout, config_max_buffer_size)
                /\ plugin' = synced
                /\ plugin_params' = Polled(plugin_params, 0)
                /\ processor' = synced
                /\ active' = TRUE
       ELSE /\ processor' = [i \in Idx |-> 0]
            /\ active' = FALSE
            /\ UNCHANGED <<plugin, plugin_params, process_config>>
    /\ life' = [NoLife EXCEPT !.op = "setActive", !.state = cMain.state,
                              !.result = "kResultOk"]
    /\ cMain' = IdleHandler
    /\ UNCHANGED <<lifeRest, processor_params, calls, config_max_buffer_size, cAudio>>

\* Component::activateBus for an audio input bus; the flag it sets lives in
\* ScratchBuffers
ActivateBusReturns ==
    /\ cMain.op = "activateBus"
    /\ life' = [NoLife EXCEPT !.op = "activateBus", !.state = cMain.state,
                   !.result = IF cMain.index < Len(InputBusMap) THEN "kResultOk"
                              ELSE "kInvalidArgument"]
    /\ cMain' = IdleHandler
    /\ UNCHANGED <<lifeRest, plugin_params, processor_params, plugin, processor,
                   active, calls, config_max_buffer_size, process_config, cAudio>>

\* Component::setupProcessing
SetupProcessingReturns ==
    /\ cMain.op = "setupProcessing"
    /\ config_max_buffer_size' = cMain.index
    /\ life' = [NoLife EXCEPT !.op = "setupProcessing", !.result = "kResultOk"]
    /\ cMain' = IdleHandler
    /\ UNCHANGED <<lifeRest, plugin_params, processor_params, plugin, processor,
                   active, calls, process_config, cAudio>>

\* (mutant) the reset leaves the pending changes where they are
SyncProcessorSkipped(params, pv) == params

\* Component::sync_processor: every change polled from processor_params
\* goes to processor.set_param
SyncProcessor(params, pv) == SetParams(params, Poll(pv, 0))

\* Component::setProcessing: refused when there is no processor; with
\* state = 0 sync_processor and then processor.reset()
SetProcessingReturns ==
    /\ cAudio.op = "setProcessing"
    /\ IF ~active
       THEN /\ life' = [NoLife EXCEPT !.op = "setProcessing", !.state = cAudio.state,
                                      !.result = "kNotInitialized"]
            /\ UNCHANGED <<processor, processor_params>>
       ELSE IF ~cAudio.state
       THEN /\ processor' = SyncProcessor(processor, processor_params)
            /\ processor_params' = Polled(processor_params, 0)
            /\ life' = [NoLife EXCEPT !.op = "setProcessing", !.state = cAudio.state,
                                      !.result = "kResultOk",
                                      !.steps = <<"sync_processor", "reset">>,
                                      !.synced = Poll(processor_params, 0)]
       ELSE /\ life' = [NoLife EXCEPT !.op = "setProcessing", !.state = cAudio.state,
                                      !.result = "kResultOk"]
            /\ UNCHANGED <<processor, processor_params>>
    /\ cAudio' = IdleHandler
    /\ UNCHANGED <<lifeRest, plugin_params, plugin, active, calls,
                   config_max_buffer_size, process_config, cMain>>

\* scratch_buffers.get_buffers: the block is accepted when every bus has the
\* channel count of its format in the config
GetBuffers(config, shape) ==
    shape = [b \in 1 .. Len(config.layout) |-> ChannelCount(config.layout[b])]

\* (mutant) process passes the main thread's config to get_buffers
ValidatedConfigOfMainThread == Config(config_layout, config_max_buffer_size)

\* Component::process, the config it passes to get_buffers:
\* &process_state.config
ValidatedConfig == process_config

\* (mutant) process does not look for a processor: it polls and processes
\* whether or not one exists
ProcessReturnsUnguarded ==
    /\ cAudio.op = "process"
    /\ processor' = SyncProcessor(processor, processor_params)
    /\ processor_params' = Polled(processor_params, 0)
    /\ life' = [NoLife EXCEPT !.op = "process", !.shape = cAudio.shape,
                              !.result = "kResultOk",
                              !.steps = <<"sync_processor", "process">>,
                              !.synced = Poll(processor_params, 0)]
    /\ cAudio' = IdleHandler
    /\ UNCHANGED <<lifeRest, plugin_params, plugin, active, calls,
                   config_max_buffer_size, process_config, cMain>>

\* Component::process for a block without parameter changes: refused when
\* there is no processor or when get_buffers fails; else sync_processor and
\* processor.process
ProcessReturns ==
    /\ cAudio.op = "process"
    /\ IF ~active
       THEN /\ life' = [NoLife EXCEPT !.op = "process", !.shape = cAudio.shape,
                                      !.result = "kNotInitialized"]
            /\ UNCHANGED <<processor, processor_params>>
       ELSE IF ~GetBuffers(ValidatedConfig, cAudio.shape)
       THEN /\ life' = [NoLife EXCEPT !.op = "process", !.shape = cAudio.shape,
                                      !.result = "kInvalidArgument"]
            /\ UNCHANGED <<processor, processor_params>>
       ELSE /\ processor' = SyncProcessor(processor, processor_params)
            /\ processor_params' = Polled(processor_params, 0)
            /\ life' = [NoLife EXCEPT !.op = "process", !.shape = cAudio.shape,
                                      !.result = "kResultOk",
                                      !.steps = <<"sync_processor", "process">>,
                                      !.synced = Poll(processor_params, 0)]
    /\ cAudio' = IdleHandler
    /\ UNCHANGED <<lifeRest, plugin_params, plugin, active, calls,
                   config_max_buffer_size, process_config, cMain>>

\* Component::setActive
ComponentSetActive(state) ==
    /\ block.op = "none" /\ calls < MaxCalls
    /\ calls' = calls + 1
    /\ IF state
       THEN LET synced == SetParams(plugin, Poll(plugin_params, 0))
            IN  /\ plugin' = synced
                /\ plugin_params' = Polled(plugin_params, 0)
                /\ processor' = synced
                /\ active' = TRUE
       ELSE /\ processor' = [i \in Idx |-> 0]
            /\ active' = FALSE
            /\ UNCHANGED <<plugin, plugin_params>>
    /\ block' = [NoBlock EXCEPT !.op = "setActive", !.result = "kResultOk"]
    /\ UNCHANGED <<processor_params, mainT, audioT, hist, editor_params,
                   wrapVars, routeVars, splitVars, layoutVars, lifeVars, otherVars>>

\* Component::process; buffers tells whether scratch_buffers.get_buffers
\* accepts the block's bus buffers
ComponentProcess(samples, changes, repeats, buffers) ==
    /\ block.op = "none" /\ calls < MaxCalls
    /\ calls' = calls + 1
    /\ IF ~active
       THEN /\ block' = [NoBlock EXCEPT !.op = "process", !.result = "kNotInitialized",
                                        !.samples = samples, !.changes = changes,
                                        !.repeats = repeats]
            /\ UNCHANGED <<plugin_params, processor_params, processor>>
       ELSE IF ~buffers
       THEN /\ block' = [NoBlock EXCEPT !.op = "process", !.result = "kInvalidArgument",
                                        !.samples = samples, !.changes = changes,
                                        !.repeats = repeats]
            /\ UNCHANGED <<plugin_params, processor_params, processor>>
       ELSE LET events == CollectEvents(changes, 0)
                synced == SetParams(processor, Poll(processor_params, 0))
            IN  /\ plugin_params' = SetAll(plugin_params, events)
                /\ processor_params' = Polled(processor_params, 0)
                /\ processor' = SetParams(synced, EventPairs(events))
                /\ block' = [NoBlock EXCEPT !.op = "process", !.result = "kResultOk",
                                            !.samples = samples, !.changes = changes,
                                            !.events = events,
                                            !.repeats = repeats,
                                            !.synced = Poll(processor_params, 0)]
    /\ UNCHANGED <<plugin, active, mainT, audioT, hist, editor_params,
                   wrapVars, routeVars, splitVars, layoutVars, lifeVars, otherVars>>

\* the states a host may load: a value for every parameter
LoadedStates == [Idx -> {MaxCalls - 1, MaxCalls}]

\* Component::setState; loaded is what plugin.load reads, <<>> if it fails
\* (mutant) the loaded values are stored without marking the indices
LoadMarksNothing(pv, loaded) == [values |-> loaded, dirty |-> pv.dirty]

\* Component::setState, the loop after plugin.load: processor_params.set
\* (index, value) for every parameter
LoadMarks(pv, loaded) == [values |-> loaded, dirty |-> [i \in Idx |-> TRUE]]

\* Component::setState: sync_plugin, plugin.load; when the load succeeds
\* every value goes to processor_params.set and into editor_params.  An
\* empty `loaded` is a stream the plugin fails to load.
ComponentSetState(loaded) ==
    /\ block.op = "none" /\ calls < MaxCalls
    /\ calls' = calls + 1
    /\ plugin_params' = Polled(plugin_params, 0)
    /\ IF loaded # <<>>
       THEN /\ plugin' = loaded
            /\ processor_params' = LoadMarks(processor_params, loaded)
            /\ editor_params' = loaded
       ELSE /\ plugin' = SetParams(plugin, Poll(plugin_params, 0))
            /\ UNCHANGED <<processor_params, editor_params>>
    /\ block' = [NoBlock EXCEPT !.op = "setState", !.loaded = loaded,
                    !.result = IF loaded # <<>> THEN "kResultOk" ELSE "kResultFalse"]
    /\ UNCHANGED <<processor, active, mainT, audioT, hist,
                   wrapVars, routeVars, splitVars, layoutVars, lifeVars, otherVars>>

\* Component::setParamNormalized
ComponentSetParamNormalized(index, value) ==
    /\ block.op = "none" /\ calls < MaxCalls
    /\ calls' = calls + 1
    /\ editor_params' = [editor_params EXCEPT ![index] = value]
    /\ block' = [NoBlock EXCEPT !.op = "setParamNormalized", !.result = "kResultOk"]
    /\ UNCHANGED <<plugin_params, processor_params, plugin, processor, active,
                   mainT, audioT, hist, wrapVars, routeVars, splitVars, layoutVars, lifeVars, otherVars>>

\* the Component call returns to the host
\* Wrapper::setState (vst3.rs), called while no other call of the Wrapper
\* runs: plugin.deserialize; when it succeeds dirty_processor.set_all and
\* dirty_editor.set_all.  An empty `loaded` is a stream that fails to
\* deserialize.
WrapSetState(loaded) ==
    /\ block.op = "none" /\ calls < MaxCalls
    /\ wMain.op = "none" /\ wAudio.op = "none"
    /\ calls' = calls + 1
    /\ IF loaded # <<>>
       THEN /\ pval' = loaded
            /\ param_states' =
                  [processor |-> BitsetSetAll(param_states["processor"]),
                   editor |-> BitsetSetAll(param_states["editor"])]
       ELSE UNCHANGED <<pval, param_states>>
    /\ block' = [NoBlock EXCEPT !.op = "Wrapper::setState", !.loaded = loaded,
                    !.result = IF loaded # <<>> THEN "kResultOk" ELSE "kResultFalse"]
    /\ UNCHANGED <<plugin_params, processor_params, plugin, processor, active,
                   mainT, audioT, hist, editor_params, wActive, wEvents, wMain,
                   wAudio, wcalls, whist, routeVars, splitVars, layoutVars, lifeVars, otherVars>>

\* Component::getState: sync_plugin, then plugin.save; ok tells whether the
\* stream takes the bytes
ComponentGetState(ok) ==
    /\ block.op = "none" /\ calls < MaxCalls
    /\ calls' = calls + 1
    /\ plugin' = SetParams(plugin, Poll(plugin_params, 0))
    /\ plugin_params' = Polled(plugin_params, 0)
    /\ block' = [NoBlock EXCEPT !.op = "getState",
                    !.result = IF ok THEN "kResultOk" ELSE "kResultFalse"]
    /\ UNCHANGED <<processor_params, processor, active, mainT, audioT, hist,
                   editor_params, wrapVars, routeVars, splitVars, layoutVars, lifeVars, otherVars>>

\* Wrapper::getState (vst3.rs), called while no other call of the Wrapper
\* runs: plugin.serialize; when it succeeds dirty_processor.set_all and
\* dirty_editor.set_all
WrapGetState(ok) ==
    /\ block.op = "none" /\ calls < MaxCalls
    /\ wMain.op = "none" /\ wAudio.op = "none"
    /\ calls' = calls + 1
    /\ IF ok
       THEN param_states' =
               [processor |-> BitsetSetAll(param_states["processor"]),
                editor |-> BitsetSetAll(param_states["editor"])]
       ELSE UNCHANGED param_states
    /\ block' = [NoBlock EXCEPT !.op = "Wrapper::getState",
                    !.result = IF ok THEN "kResultOk" ELSE "kResultFalse"]
    /\ UNCHANGED <<plugin_params, processor_params, plugin, processor, active,
                   mainT, audioT, hist, editor_params, pval, wActive, wEvents, wMain,
                   wAudio, wcalls, whist, routeVars, splitVars, layoutVars, lifeVars, otherVars>>

ComponentReturn ==
    /\ block.op # "none"
    /\ block' = NoBlock
    /\ UNCHANGED <<chanVars, editor_params, wrapVars, routeVars, splitVars, layoutVars, lifeVars, otherVars>>

\* Component::new: editor_params holds every parameter's default
ComponentInit ==
    /\ editor_params = [i \in Idx |-> 0]
    /\ block = NoBlock
    /\ LifeInit
    /\ MapInit
    /\ WithThreads(1)
    /\ ApplicationOpen

NextComponent ==
    \/ \E state \in BOOLEAN : ComponentSetActive(state)
    \/ /\ block.op = "none"
       /\ \E samples \in 1 .. MaxBufferSize, buffers \in BOOLEAN :
          \E changes \in ParameterChanges(samples) :
             \E repeats \in PointRepeats(changes) :
                ComponentProcess(samples, changes, repeats, buffers)
    \/ \E loaded \in LoadedStates \cup {<<>>} : ComponentSetState(loaded)
    \/ \E loaded \in LoadedStates \cup {<<>>} : WrapSetState(loaded)
    \/ \E ok \in BOOLEAN : ComponentGetState(ok)
    \/ \E ok \in BOOLEAN : WrapGetState(ok)
    \/ \E index \in Idx : ComponentSetParamNormalized(index, MaxCalls)
    \/ ComponentReturn

\* a plugin created as a VST3 Component (vst3/component.rs), as a Wrapper
\* (vst3.rs) or as a CLAP instance, and the calls of its host on the two
\* threads
NextLife ==
    \/ \E format \in {"vst3", "wrapper", "clap"} : Create(format)
    \/ \E call \in MainCalls : CallMain(call)
    \/ \E call \in AudioCalls : CallAudio(call)
    \/ SetActiveReturns
    \/ ActivateBusReturns
    \/ SetupProcessingReturns
    \/ SetProcessingReturns
    \/ ProcessReturns
    \/ /\ adapter = "vst3" /\ cMain.op = "none"
       /\ \E proposal \in HostProposals :
             ComponentSetBusArrangements(proposal.inputs, proposal.outputs)
    \/ /\ adapter = "vst3" /\ cMain.op = "none"
       /\ ComponentSetState([i \in Idx |-> MaxCalls])
    \/ ReplyReturn
    \/ ComponentReturn
    \/ /\ adapter = "clap"
       /\ NextChan
    \/ /\ adapter = "wrapper"
       /\ NextWrap

(* ============ VST3 wrapper: buffers of one process call ================ *)
\* the channel buffers the host owns, named by their addresses
HostPtrs == 1 .. MaxPtrs

\* what the host's buffer at address p holds in sample s when process is
\* called, and what it holds once the plugin has written the output
HostSample(p, s) == 10 * p + s
WrittenSample(p, s) == 100 + 10 * p + s

\* what a read of memory that was never written in this call may return
JunkVals == {0, HostSample(1, 1)}

\* the channel pointer lists a host may pass for one bus
ChannelLists == UNION {[1 .. n -> HostPtrs] : n \in 0 .. 2}

\* the bus buffers a host may pass for one direction
HostBuses == {<<>>} \cup {<<chs>> : chs \in ChannelLists}

\* every channel pointer the host passed for one direction
RECURSIVE Flatten(_)
Flatten(buses) == IF buses = <<>> THEN <<>> ELSE Head(buses) \o Flatten(Tail(buses))

HostPtr(p) == [kind |-> "host", at |-> p]
ScratchPtr(offset) == [kind |-> "scratch", at |-> offset]
NullPtr == [kind |-> "null", at |-> 0]

\* process, the loop over inputs.iter().zip(bus_states.inputs.iter()): the
\* channel pointers of the enabled buses, or a channel count mismatch
RECURSIVE GatherPtrs(_, _)
GatherPtrs(buses, states) ==
    IF buses = <<>> \/ states = <<>> THEN [ok |-> TRUE, ptrs |-> <<>>]
    ELSE IF ~Head(states).enabled \/ Head(states).format = 0
         THEN GatherPtrs(Tail(buses), Tail(states))
    ELSE IF Len(Head(buses)) # Head(states).format
         THEN [ok |-> FALSE, ptrs |-> <<>>]
    ELSE LET rest == GatherPtrs(Tail(buses), Tail(states))
         IN  [ok |-> rest.ok, ptrs |-> Head(buses) \o rest.ptrs]

\* (mutant) process without the comparison of the bus counts
GatherDirAnyCount(buses, states, busListLen) == GatherPtrs(buses, states)

\* process, one direction: the bus count check, then the loop
GatherDir(buses, states, busListLen) ==
    IF busListLen = 0 THEN [ok |-> TRUE, ptrs |-> <<>>]
    ELSE IF Len(buses) # busListLen THEN [ok |-> FALSE, ptrs |-> <<>>]
    ELSE GatherPtrs(buses, states)

\* (mutants) the search in output_ptr_set finds nothing / finds everything
IsAliasedNever(input_ptr, output_ptr_set) == FALSE
IsAliasedAlways(input_ptr, output_ptr_set) == TRUE

\* output_ptr_set.binary_search(input_ptr).is_ok()
IsAliased(input_ptr, output_ptr_set) == input_ptr \in output_ptr_set

\* the loop that fills aliased_inputs: the channels (from 0) whose pointer
\* is an output pointer
RECURSIVE AliasedInputs(_, _, _)
AliasedInputs(input_ptrs, output_ptr_set, channel) ==
    IF channel >= Len(input_ptrs) THEN <<>>
    ELSE (IF IsAliased(input_ptrs[channel + 1], output_ptr_set)
          THEN <<channel>> ELSE <<>>)
         \o AliasedInputs(input_ptrs, output_ptr_set, channel + 1)

\* slice::from_raw_parts(input_ptr, samples) of a host buffer
HostBuffer(p, samples) == [s \in 1 .. samples |-> HostSample(p, s)]

\* scratch_buffers after extend_from_slice for every aliased channel
RECURSIVE ScratchBuffers(_, _, _)
ScratchBuffers(aliased, input_ptrs, samples) ==
    IF aliased = <<>> THEN <<>>
    ELSE HostBuffer(input_ptrs[Head(aliased) + 1], samples)
         \o ScratchBuffers(Tail(aliased), input_ptrs, samples)

\* capacity of scratch_buffers after count calls of extend_from_slice
RECURSIVE CapacityAfter(_, _, _, _)
CapacityAfter(cap, len, count, samples) ==
    IF count = 0 THEN cap
    ELSE CapacityAfter(VecReserve(cap, len, samples), len + samples,
                       count - 1, samples)

\* offset in scratch_buffers of the pointer given to the aliased channel
\* number index (from 0)
ScratchOffset(index, max_buffer_size) == index * max_buffer_size

\* input_ptrs after the loop over aliased_inputs
SubstitutedPtrs(input_ptrs, aliased, max_buffer_size) ==
    [c \in 1 .. Len(input_ptrs) |->
       IF \E index \in 1 .. Len(aliased) : aliased[index] = c - 1
       THEN LET index == CHOOSE index \in 1 .. Len(aliased) : aliased[index] = c - 1
            IN  ScratchPtr(ScratchOffset(index - 1, max_buffer_size))
       ELSE HostPtr(input_ptrs[c])]

\* the samples the plugin reads through a channel pointer of the view,
\* once the buffers at the addresses in written have been written; a read
\* past the length of scratch_buffers returns junk
ReadChannel(ptr, samples, scratch, junk, written) ==
    [s \in 1 .. samples |->
       IF ptr.kind = "host"
       THEN IF ptr.at \in written THEN WrittenSample(ptr.at, s)
            ELSE HostSample(ptr.at, s)
       ELSE IF ptr.kind = "scratch" /\ ptr.at + s <= Len(scratch)
       THEN scratch[ptr.at + s]
       ELSE junk]

\* the events of the drain of dirty_processor, taken in one step
RECURSIVE DrainedEvents(_, _)
DrainedEvents(bits, i) ==
    IF i >= NParams THEN <<>>
    ELSE (IF bits[i] THEN <<[idx |-> i, val |-> pval[i], offset |-> 0]>> ELSE <<>>)
         \o DrainedEvents(bits, i + 1)

\* numChannels of every bus buffer the host passed for one direction
NumChannels(buses) == [k \in 1 .. Len(buses) |-> Len(buses[k])]

\* the blocks a host may pass: up to max_buffer_size samples and no
\* parameter changes
ProcessData ==
    [numSamples : 0 .. processor_state.max_buffer_size,
     inputs : HostBuses, outputs : HostBuses]

\* Wrapper::process while no other call is running, up to the return of
\* kInvalidArgument or the call of processor.process
RouteProcess(data, junk) ==
    /\ NoCallRunning /\ wActive
    /\ LET events == SortByOffset(DrainedEvents(param_states[ProcessDrains], 0))
           samples == data.numSamples
           ins == GatherDir(data.inputs, bus_states.inputs, Len(bus_states.inputs))
           outs == GatherDir(data.outputs, bus_states.outputs, Len(bus_states.outputs))
           output_ptr_set == {outs.ptrs[k] : k \in 1 .. Len(outs.ptrs)}
           aliased == AliasedInputs(ins.ptrs, output_ptr_set, 0)
           scratch == ScratchBuffers(aliased, ins.ptrs, samples)
           cap == CapacityAfter(processor_state.scratch_capacity, 0,
                                Len(aliased), samples)
           input_ptrs ==
               IF samples > 0
               THEN SubstitutedPtrs(ins.ptrs, aliased, processor_state.max_buffer_size)
               ELSE [c \in 1 .. processor_state.input_channels |-> NullPtr]
           output_ptrs ==
               IF samples > 0
               THEN [c \in 1 .. Len(outs.ptrs) |-> HostPtr(outs.ptrs[c])]
               ELSE [c \in 1 .. processor_state.output_channels |-> NullPtr]
       IN  /\ param_states' = [param_states EXCEPT ![ProcessDrains] = BitsetNew]
           /\ IF samples > 0 /\ (~ins.ok \/ ~outs.ok)
              THEN /\ wEvents' = events
                   /\ view' = [NoView EXCEPT !.result = "kInvalidArgument",
                                             !.samples = samples,
                                             !.in_buses = NumChannels(data.inputs),
                                             !.out_buses = NumChannels(data.outputs)]
                   /\ UNCHANGED <<processor_state, whist>>
              ELSE /\ wEvents' = <<>>
                   /\ whist' = [whist EXCEPT !.delivered = events]
                   /\ processor_state' =
                         [processor_state EXCEPT !.scratch_capacity =
                             IF samples > 0 THEN cap ELSE @]
                   /\ view' =
                         [result |-> "kResultOk",
                          samples |-> samples,
                          host_inputs |->
                              IF samples > 0 THEN ins.ptrs ELSE Flatten(data.inputs),
                          host_outputs |->
                              IF samples > 0 THEN outs.ptrs ELSE Flatten(data.outputs),
                          input_ptrs |-> input_ptrs,
                          output_ptrs |-> output_ptrs,
                          aliased_inputs |-> IF samples > 0 THEN aliased ELSE <<>>,
                          scratch_len |-> IF samples > 0 THEN Len(scratch) ELSE 0,
                          grew |-> samples > 0 /\ cap # processor_state.scratch_capacity,
                          in_before |-> [c \in 1 .. Len(input_ptrs) |->
                              ReadChannel(input_ptrs[c], samples, scratch, junk, {})],
                          in_after |-> [c \in 1 .. Len(input_ptrs) |->
                              ReadChannel(input_ptrs[c], samples, scratch, junk,
                                          IF samples > 0 THEN output_ptr_set ELSE {})],
                          in_buses |-> NumChannels(data.inputs),
                          out_buses |-> NumChannels(data.outputs)]
    /\ UNCHANGED <<pval, wActive, wMain, wAudio, wcalls, bus_states, reply,
                   chanVars, splitVars, layoutVars, compVars>>

\* Wrapper::process, after processor.process: scratch_buffers, input_ptrs,
\* output_ptrs and events are cleared and the call returns
RouteReturn ==
    /\ view.result # "none"
    /\ view' = NoView
    /\ UNCHANGED <<bus_states, processor_state, reply, chanVars, wrapVars, splitVars, layoutVars, compVars>>

\* a host that changes the buses only while the plugin is inactive
NextRoute ==
    \/ /\ ~wActive
       /\ \E dir \in {"inputs", "outputs"}, index \in 0 .. 1, state \in BOOLEAN :
             ActivateBus(dir, index, state)
    \/ /\ ~wActive
       /\ \E ins \in HostArrangements, outs \in HostArrangements :
             SetBusArrangements(ins, outs)
    \/ ReplyReturn
    \/ \E maxSamplesPerBlock \in 1 .. MaxBufferSize : SetupProcessing(maxSamplesPerBlock)
    \/ \E state \in BOOLEAN : SetActive(state)
    \/ WrapProcessNotInitialized
    \/ \E data \in ProcessData, junk \in JunkVals : RouteProcess(data, junk)
    \/ RouteReturn
    \/ \E config_id \in ConfigIds : Select(config_id)
    \/ ActivatePorts
    \/ DeactivatePorts
    \/ \E inputs \in HostPorts, outputs \in HostPorts, same \in HostSame :
          \E len \in 0 .. 1 : ProcessPorts(inputs, outputs, same, len)
    \/ PortsReturn

(* ---- properties of the Buffer View ---- *)
\* processor.process is running on the view
ViewRan == view.result = "kResultOk"

\* no input channel pointer of the view equals an output channel pointer
ViewPtrsDistinct ==
    \A a \in 1 .. Len(view.input_ptrs), b \in 1 .. Len(view.output_ptrs) :
       view.input_ptrs[a] # view.output_ptrs[b]

\* every input channel whose host pointer is an output pointer got a
\* pointer into scratch storage
AliasedInScratch ==
    \A c \in 1 .. Len(view.input_ptrs) :
       (\E b \in 1 .. Len(view.host_outputs) : view.host_inputs[c] = view.host_outputs[b])
          => view.input_ptrs[c].kind = "scratch"

\* C8 as stated: in every view handed to the plugin the input pointers
\* differ from the output pointers, aliased inputs point into scratch
\* storage, and the writes through the outputs leave the inputs unchanged.
DeAliasingEveryView ==
    ViewRan => /\ ViewPtrsDistinct
               /\ view.in_after = view.in_before

\* C8: de-aliasing, for blocks with at least one sample.  In every view of
\* such a block no input channel pointer equals an output channel pointer,
\* every input whose host pointer is in the output pointer set points into
\* scratch storage, and what the inputs yield is the same before and after
\* the writes through the outputs.
DeAliasing ==
    (ViewRan /\ view.samples > 0) =>
       /\ ViewPtrsDistinct
       /\ AliasedInScratch
       /\ view.in_after = view.in_before

\* the host aliased the second of two input channels only: it reads from
\* scratch storage, the first keeps the host's pointer
DeAliasingWitness ==
    /\ ViewRan /\ view.samples = 2
    /\ view.aliased_inputs = <<1>>
    /\ Len(view.input_ptrs) = 2 /\ Len(view.output_ptrs) = 2
    /\ view.input_ptrs[1].kind = "host"
    /\ view.input_ptrs[2] = ScratchPtr(0)

\* C9 as stated: for every aliased input channel and every block of 1 to
\* max_buffer_size samples, the samples read through that channel of the
\* view are the samples the host's buffer held when process was called.
CopyCorrectness ==
    (ViewRan /\ view.samples >= 1) =>
       \A index \in 1 .. Len(view.aliased_inputs) :
          LET c == view.aliased_inputs[index] + 1
          IN  view.in_before[c] = HostBuffer(view.host_inputs[c], view.samples)

\* no input channel pointer of the host equals an output channel pointer
NoAliasing ==
    \A a \in 1 .. Len(view.host_inputs), b \in 1 .. Len(view.host_outputs) :
       view.host_inputs[a] # view.host_outputs[b]

\* nothing copied, the host's own pointers, the host's own samples
NothingCopied ==
    /\ view.scratch_len = 0 /\ ~view.grew
    /\ \A c \in 1 .. Len(view.input_ptrs) :
          /\ c <= Len(view.host_inputs)
          /\ view.input_ptrs[c] = HostPtr(view.host_inputs[c])
          /\ view.in_before[c] = HostBuffer(view.host_inputs[c], view.samples)

\* C10 as stated: without aliasing process copies nothing and every input
\* channel of the view is the host's own pointer, in every block.
NoAliasingNoCopyEveryBlock == (ViewRan /\ NoAliasing) => NothingCopied

\* C10: without aliasing, for blocks with at least one sample.  When no
\* input pointer of the host equals an output pointer, nothing is copied
\* into scratch storage, every input channel of the view is the host's own
\* pointer and yields the host's samples whatever scratch storage holds.
NoAliasingNoCopy == (ViewRan /\ view.samples > 0 /\ NoAliasing) => NothingCopied

\* a block of two samples with two input and two output channels on
\* disjoint buffers
NoAliasingNoCopyWitness ==
    /\ ViewRan /\ view.samples = 2 /\ NoAliasing
    /\ Len(view.input_ptrs) = 2 /\ Len(view.output_ptrs) = 2
    /\ view.input_ptrs = <<HostPtr(1), HostPtr(2)>>
    /\ view.scratch_len = 0

(* ---- properties of block validation ---- *)
\* the bus buffers of the VST3 block contradict the negotiated layout: a
\* bus count other than that of the bus list, or an enabled bus with a
\* channel count other than that of its format
ViewBusMismatch ==
    \/ Len(view.in_buses) # BusListInputs
    \/ Len(view.out_buses) # BusListOutputs
    \/ \E k \in 1 .. Min(Len(view.in_buses), Len(bus_states.inputs)) :
          /\ bus_states.inputs[k].enabled
          /\ view.in_buses[k] # bus_states.inputs[k].format
    \/ \E k \in 1 .. Min(Len(view.out_buses), Len(bus_states.outputs)) :
          /\ bus_states.outputs[k].enabled
          /\ view.out_buses[k] # bus_states.outputs[k].format

\* the ports of the CLAP block contradict the layout selected at activation
PortsMismatch ==
    LET layout == InfoLayouts[layout_index + 1]
    IN  \/ Len(ports.inputs) # Len(InputBusMap)
        \/ Len(ports.outputs) # Len(OutputBusMap)
        \/ \E k \in 1 .. Min(Len(ports.inputs), Len(InputBusMap)) :
              ports.inputs[k] # ChannelCount(layout[InputBusMap[k] + 1])
        \/ \E k \in 1 .. Min(Len(ports.outputs), Len(OutputBusMap)) :
              ports.outputs[k] # ChannelCount(layout[OutputBusMap[k] + 1])

\* the CLAP process call rejects every block that contradicts the layout
\* and does not invoke the processor for it
PortsRejected ==
    (ports.result # "none" /\ PortsMismatch) =>
       (ports.result = "Err" /\ ~ports.invoked)

SaveStep == block.op = "none" /\ block'.op \in {"getState", "Wrapper::getState"}

\* C29 as stated: saving state marks nothing: a getState call sets no bit
\* in a pending-for-processor or pending-for-editor set.
SaveMarksNothing ==
    [][SaveStep =>
          \A i \in Idx :
             /\ param_states'["processor"][i] => param_states["processor"][i]
             /\ param_states'["editor"][i] => param_states["editor"][i]
             /\ processor_params'.dirty[i] => processor_params.dirty[i]
             /\ plugin_params'.dirty[i] => plugin_params.dirty[i]]_vars

(* ---- properties of the CLAP instance once its host goes quiet ---- *)
\* what sync_plugin leaves in the plugin, and sync_processor in the
\* processor, when it runs to its end while the other thread is in no call
AfterSyncPlugin == SetParams(plugin, Poll(plugin_params, 0))
AfterSyncProcessor == SetParams(processor, Poll(processor_params, 0))

\* C28 as stated: quiescent convergence: whenever both threads of an
\* active CLAP instance are between calls, one more sync_plugin on the main
\* thread and one more sync_processor on the audio thread leave the plugin
\* and the processor with equal values of every parameter.
QuiescentConvergence ==
    (active /\ mainT.pc = "idle" /\ audioT.pc = "idle") =>
       \A i \in Idx : AfterSyncPlugin[i] = AfterSyncProcessor[i]

(* ---- properties of a block the Wrapper rejects ---- *)
\* the step in which Wrapper::process returns kInvalidArgument with events
\* gathered
RejectedReturn ==
    CurStep(wAudio) = "finish" /\ wAudio'.op = "none" /\ wEvents' # <<>>

\* C27 as stated: a rejected block consumes no parameter update: every
\* parameter the call drained from the pending-for-processor set (its
\* events that are not host points of the block) is pending for the
\* processor again when the call returns kInvalidArgument.
RejectedBlockKeepsPending ==
    [][RejectedReturn =>
          \A k \in 1 .. Len(wEvents) :
             wEvents[k].val # wAudio.val =>
                param_states'["processor"][wEvents[k].idx]]_vars

(* ---- properties of the Component's threads and activation ---- *)
\* C25 as stated: ProcessState is never referenced by two threads at once,
\* for every host call sequence in which setActive and activateBus run on
\* the main thread and setProcessing and process on the audio thread.
ProcessStateOneThread == ~(Holds(cMain) /\ Holds(cAudio))

\* the step in which a handler of the Component returns on the audio thread
AudioHandlerReturns(op) == cAudio.op = op /\ cAudio'.op = "none"

\* C26: a reset never deactivates.  Component::setProcessing is refused
\* with kNotInitialized when no processor exists and changes nothing; with
\* state = 0 and a processor it gives the processor every change pending
\* for it, then resets it, and the processor still exists; a process call
\* that finds a processor is never refused with kNotInitialized.  A CLAP
\* reset polls to the end before it resets, and returns with the
\* processor still there and the audio thread free for the next process.
\* No processor is created or dropped during a call on the audio thread.
ResetNeverDeactivates ==
    [][/\ AudioHandlerReturns("setProcessing") =>
             /\ active' = active
             /\ ~active =>
                   /\ life'.result = "kNotInitialized"
                   /\ processor' = processor
                   /\ processor_params' = processor_params
             /\ (active /\ ~cAudio.state) =>
                   /\ life'.result = "kResultOk"
                   /\ life'.steps = <<"sync_processor", "reset">>
                   /\ \A i \in Idx :
                         /\ processor_params.dirty[i] =>
                               processor'[i] = processor_params.values[i]
                         /\ ~processor_params.dirty[i] => processor'[i] = processor[i]
                         /\ ~processor_params'.dirty[i]
       /\ (AudioHandlerReturns("process") /\ active) =>
             life'.result # "kNotInitialized"
       /\ (audioT.op = "reset" /\ audioT' # audioT) =>
             /\ active /\ active'
             /\ audioT'.pc = "reset" => audioT.pc = "synced"
             /\ audioT'.pc = "ret" => audioT.pc = "reset"
             /\ audioT'.op = "none" => audioT.pc = "ret" /\ audioT'.pc = "idle"
       /\ active' # active => (cAudio.op = "none" /\ audioT.op = "none")
      ]_vars

\* a Component reset that gave the processor the loaded values pending for
\* it has returned, and the processor exists
ResetNeverDeactivatesWitness ==
    /\ life.op = "setProcessing" /\ ~life.state /\ life.result = "kResultOk"
    /\ life.synced # <<>>
    /\ active /\ processor = [i \in Idx |-> MaxCalls]

\* C31: process requires an active processor.  A Component process that
\* finds no processor returns kNotInitialized, runs neither sync_processor
\* nor the processor and leaves the pending sets as they are; the
\* processor exists exactly from the return of setActive(true) to the
\* return of the next setActive(false).  While the Wrapper has no
\* processor no process call starts, no bit of the pending-for-processor
\* set is cleared and no event is gathered or delivered, and its processor
\* comes and goes only while no call runs.
ProcessNeedsProcessor ==
    [][/\ (AudioHandlerReturns("process") /\ ~active) =>
             /\ life'.result = "kNotInitialized"
             /\ life'.steps = <<>> /\ life'.synced = <<>>
             /\ processor' = processor
             /\ processor_params' = processor_params
             /\ plugin_params' = plugin_params
       /\ (cMain.op = "setActive" /\ cMain'.op = "none") => active' = cMain.state
       /\ (adapter = "vst3" /\ active' # active) =>
             (cMain.op = "setActive" /\ cMain'.op = "none")
       /\ (adapter = "wrapper" /\ ~wActive) =>
             /\ wAudio' = wAudio
             /\ wEvents' = wEvents
             /\ whist'.delivered = whist.delivered
             /\ \A i \in Idx :
                   param_states["processor"][i] => param_states'["processor"][i]
       /\ (adapter = "wrapper" /\ wActive' # wActive) =>
             (wMain.op = "none" /\ wAudio.op = "none")
      ]_vars

\* a process call of the Component was refused while a loaded state was
\* pending for the processor, and it still is
ProcessNeedsProcessorWitness ==
    /\ life.op = "process" /\ life.result = "kNotInitialized"
    /\ ~active
    /\ \A i \in Idx : processor_params.dirty[i]

\* the Config of the main thread
MainConfig == Config(config_layout, config_max_buffer_size)

\* the step in which Component::setBusArrangements runs, and the one in
\* which setupProcessing returns
SetBusArrangementsStep == reply.op = "none" /\ reply'.op = "Component::setBusArrangements"
SetupProcessingStep == cMain.op = "setupProcessing" /\ cMain'.op = "none"

\* C30: the Component's configuration is snapshotted at activation.  The
\* Config of ProcessState changes only when setActive(true) returns, to the
\* main thread's Config of that moment; setBusArrangements and
\* setupProcessing leave it as it is, with or without a processor; and a
\* process call that finds a processor is accepted exactly when the block
\* has the shape of the Config of ProcessState.
ConfigSnapshotAtActivation ==
    [][/\ (cMain.op = "setActive" /\ cMain.state /\ cMain'.op = "none") =>
             process_config' = MainConfig
       /\ process_config' # process_config =>
             (cMain.op = "setActive" /\ cMain.state /\ cMain'.op = "none")
       /\ (SetBusArrangementsStep \/ SetupProcessingStep) =>
             process_config' = process_config
       /\ (AudioHandlerReturns("process") /\ active) =>
             /\ life'.result \in {"kResultOk", "kInvalidArgument"}
             /\ life'.result = "kResultOk" <=>
                   GetBuffers(process_config, cAudio.shape)
      ]_vars

\* a block was accepted against the snapshot after the host changed both
\* the layout and the maximum block length of the main thread's Config
ConfigSnapshotAtActivationWitness ==
    /\ life.op = "process" /\ life.result = "kResultOk" /\ active
    /\ process_config.layout # config_layout
    /\ process_config.max_buffer_size # config_max_buffer_size
    /\ ~GetBuffers(MainConfig, life.shape)

(* ---- properties of the graphics ThreadPool ---- *)
\* a task is in the channel or a worker is running one
TaskQueuedOrRunning ==
    \/ receiver # <<>>
    \/ \E w \in DOMAIN handles : handles[w].pc = "run"

\* the scope call has returned to its caller, normally or by unwinding
ScopeHasReturned == scopeT.pc \in {"returned", "join", "dropped"}

\* C35: ThreadPool::scope is a barrier: a scope call does not return,
\* normally or by unwinding, while any task spawned through its Scope is
\* still queued or running, for every number of worker threads >= 1, also
\* when the scope closure itself panics
ScopeIsBarrier == ScopeHasReturned => ~TaskQueuedOrRunning

\* C35 witness: a scope call whose closure spawned the most tasks and then
\* panicked has waited for them on a pool of several workers and unwound
ScopeIsBarrierWitness ==
    /\ scopeT.pc = "returned"
    /\ scopeT.result = "Err"
    /\ pool_hist.spawned = MaxTasks
    /\ pool_hist.blocked
    /\ Cardinality(DOMAIN handles) = MaxThreads

\* C36: if a task spawned inside a scope call panics, that same scope call
\* re-raises a panic to its caller: the scope never returns normally, and
\* the panic a scope call re-raises is never one stored by a task of an
\* earlier scope call
PanicPropagates ==
    scopeT.pc = "returned" =>
        /\ pool_hist.panicked => scopeT.outcome # "normal"
        /\ scopeT.outcome = "task panic" => scopeT.payload = scopeT.epoch

\* every task the scope call spawned has been counted down once
EveryTaskCountedOnce ==
    \A id \in 1 .. MaxTasks :
       pool_hist.decrements[id] = (IF id <= pool_hist.spawned THEN 1 ELSE 0)

\* C37: if every spawned task terminates, the task count is decremented
\* exactly once per task, never drops below zero and returns to zero, and
\* the thread waiting in scope is woken, so that the scope call returns
\* under fair scheduling; after the pool is dropped every worker exits
ScopeTerminates ==
    /\ [](task_count >= 0)
    /\ [](\A id \in 1 .. MaxTasks : pool_hist.decrements[id] <= 1)
    /\ [](scopeT.pc = "returned" => (task_count = 0 /\ EveryTaskCountedOnce))
    /\ (scopeT.pc = "closure" ~> (task_count = 0 /\ scopeT.pc = "swap"))
    /\ (scopeT.pc = "waiting" ~> scopeT.pc = "check")
    /\ (scopeT.pc = "closure" ~> scopeT.pc = "returned")
    /\ (scopeT.pc = "join"
           ~> (\A w \in DOMAIN handles : handles[w].pc = "exited"))

\* C37 witness: the last scope call spawned the most tasks and blocked on
\* zero_tasks before it returned; the pool has been dropped and every
\* worker has left its loop
ScopeTerminatesWitness ==
    /\ scopeT.pc = "dropped"
    /\ pool_hist.spawned = MaxTasks
    /\ pool_hist.blocked
    /\ EveryTaskCountedOnce
    /\ Cardinality(DOMAIN handles) = MaxThreads
    /\ \A w \in DOMAIN handles : handles[w].pc = "exited"

(* ---- properties of the X11 windows ---- *)
\* a window is in the table exactly while its WindowState is open
TableExactlyOpen ==
    \A id \in WindowIds : id \in windows <=> window_states[id].state = "open"

\* destroy has been called once for a closed window and never for another
DestroyedOnceClosed ==
    \A id \in WindowIds :
       window_states[id].destroys = (IF window_states[id].state = "closed" THEN 1 ELSE 0)

\* the first close of an open window removed it and destroyed it
FirstCloseRemoves ==
    (win_reply.op = "Window::close" /\ win_reply.first)
        => /\ win_reply.id \notin windows
           /\ win_reply.removed = {win_reply.id}
           /\ win_reply.destroyed = {win_reply.id}

\* a later close did nothing and returned Ok
LaterCloseNoEffect ==
    (win_reply.op \in {"Window::close", "Application::close"} /\ ~win_reply.first)
        => /\ win_reply.result = "Ok"
           /\ win_reply.removed = {}
           /\ win_reply.destroyed = {}

\* a Window::open that returned an error left nothing in the table
FailedOpenRegistersNothing ==
    (win_reply.op = "Window::open" /\ win_reply.result # "Ok")
        => win_reply.id \notin windows

\* C38: a window is in the application's window table exactly while it is
\* open; the first close of an open window, by Window::close or by
\* Application::close, removes it from the table and calls its handler's
\* destroy exactly once; every later close has no effect and returns Ok;
\* and a Window::open that returns an error leaves no window registered
WindowLifecycle ==
    /\ TableExactlyOpen
    /\ DestroyedOnceClosed
    /\ FirstCloseRemoves
    /\ LaterCloseNoEffect
    /\ FailedOpenRegistersNothing

(* ---- properties of the Wrapper's channel ranges ---- *)
\* every (start, end) range of the list lies inside a pointer list of
\* length len
RangesInside(indices, len) ==
    \A k \in 1 .. Len(indices) :
       /\ indices[k][1] <= indices[k][2]
       /\ indices[k][2] <= len

\* C32: in every process call that reaches the plugin, input_ptrs and
\* output_ptrs have exactly input_channels and output_channels entries and
\* every per-bus (start, end) range recorded at setActive lies inside its
\* list, after any sequence of activateBus, setBusArrangements and
\* setActive calls that precedes the process call
RangesMatchPointerLists ==
    view.result = "kResultOk" =>
        /\ Len(view.input_ptrs) = processor_state.input_channels
        /\ Len(view.output_ptrs) = processor_state.output_channels
        /\ RangesInside(processor_state.input_indices, Len(view.input_ptrs))
        /\ RangesInside(processor_state.output_indices, Len(view.output_ptrs))

(* ---- properties of a stepped CLAP parameter ---- *)
\* a fraction in [0, 1]
InUnit(r) == 0 <= r.num /\ r.num <= r.den

\* the three parts of the statement on a stepped parameter: what flush
\* hands to the plugin lies in [0, 1]; it maps back to the host's value;
\* the default get_info gives lies in the range it gives
FlushInUnit ==
    (param.steps >= 1 /\ told.op = "flush") => InUnit(param_value)

FlushRoundTrip ==
    (param.steps >= 1 /\ told.op = "flush")
        => MapParamOut(param.steps, param_value) = told.host

DefaultInRange ==
    (param.steps >= 1 /\ told.op = "get_info")
        => /\ told.value.den = 1
           /\ told.min_value <= told.value.num
           /\ told.value.num <= told.max_value

\* C34: for a parameter with steps = s >= 1 and every integer host value v
\* in the range get_info gives, 0 .. max(s, 2) - 1, map_param_in(v) lies in
\* [0, 1] and map_param_out(map_param_in(v)) = v, and the default_value
\* get_info gives lies in that range for every default in [0, 1]
SteppedMappingInRange ==
    /\ FlushInUnit
    /\ FlushRoundTrip
    /\ DefaultInRange

(* ---- properties of the Component's speaker arrangements ---- *)
\* C33 as stated: speaker_arrangement_to_format(format_to_speaker_arrangement
\* (f)) = f for every Format f, and once setBusArrangements has accepted a
\* layout getBusArrangement reports for each bus the arrangement the host
\* set for it.
ArrangementRoundTrip ==
    /\ \A f \in {"Mono", "Stereo"} :
          SpeakerArrangementToFormat(FormatToSpeakerArrangement(f)) = f
    /\ (reply.op = "Component::setBusArrangements" /\ reply.result = "kResultTrue") =>
          /\ \A index \in 0 .. Len(InputBusMap) - 1 :
                ComponentGetBusArrangement(config_layout, "In", index).arr =
                   reply.inputs[index + 1]
          /\ \A index \in 0 .. Len(OutputBusMap) - 1 :
                ComponentGetBusArrangement(config_layout, "Out", index).arr =
                   reply.outputs[index + 1]

(* ---- properties of the bus information given to the host ---- *)
\* C24 as stated: the channel count reported to the host for a bus equals
\* the channel count of the bus's format under the active layout, for
\* every bus index and every layout, in VST3 getBusInfo and in the CLAP
\* audio-ports get.
ReportedChannelCount ==
    \A dir \in {"In", "Out"} :
       LET bus_map == IF dir = "In" THEN InputBusMap ELSE OutputBusMap
       IN  \A index \in 0 .. Len(bus_map) - 1 :
              /\ ComponentGetBusInfo(config_layout, dir, index).channelCount =
                    ChannelCount(config_layout[bus_map[index + 1] + 1])
              /\ AudioPortsGetChannelCount(layout_index, dir, index) =
                    ChannelCount(InfoLayouts[layout_index + 1][bus_map[index + 1] + 1])

(* ---- properties of the CLAP buffers of an input-output bus ---- *)
\* ProcessState::process accepted the block
PortsRan == ports.result = "Ok"

\* every channel of every input-output bus has one slot in buffer_ptrs,
\* read-write and holding the output port's pointer
OneReadWriteBuffer ==
    \A b \in 1 .. Len(InfoBuses) :
       InfoBuses[b] = "InOut" =>
          \A c \in 1 .. ChannelCount(InfoLayouts[layout_index + 1][b]) :
             LET slots == {slot \in 1 .. Len(ports.buffer_ptrs) :
                              /\ ports.buffer_ptrs[slot].bus = b - 1
                              /\ ports.buffer_ptrs[slot].channel = c}
             IN  /\ Cardinality(slots) = 1
                 /\ \A slot \in slots :
                       /\ ports.buffer_ptrs[slot].buffer_type = "Mut"
                       /\ ports.buffer_ptrs[slot].side = "output"

\* C22 as stated: for an input-output bus the view has one read-write
\* buffer per channel and no sample is copied for that bus in any process
\* call, whether or not the host passed the same pointer for the input and
\* the output side.
InOutNeverCopied ==
    PortsRan =>
       /\ OneReadWriteBuffer
       /\ \A k \in 1 .. Len(ports.copies) : ports.copies[k].len = 0

\* C22, amended: for an input-output bus the view has one read-write
\* buffer per channel, the output port's; a channel for which the host
\* passed the same pointer on both sides is not copied, and a channel for
\* which it passed different pointers has the block's input samples copied
\* into the output buffer, once, before the processor runs.  No other bus
\* is copied.
InOutCopiedUnlessInPlace ==
    PortsRan =>
       /\ OneReadWriteBuffer
       /\ \A k \in 1 .. Len(ports.copies) :
             /\ InfoBuses[ports.copies[k].bus + 1] = "InOut"
             /\ ~ports.same[ports.copies[k].channel]
             /\ ports.copies[k].len = ports.frames
             /\ \A j \in 1 .. Len(ports.copies) :
                   (ports.copies[j].bus = ports.copies[k].bus
                    /\ ports.copies[j].channel = ports.copies[k].channel) => j = k
       /\ \A b \in 1 .. Len(InfoBuses) :
             InfoBuses[b] = "InOut" =>
                \A c \in 1 .. ChannelCount(InfoLayouts[layout_index + 1][b]) :
                   ~ports.same[c] =>
                      \E k \in 1 .. Len(ports.copies) :
                         ports.copies[k].bus = b - 1 /\ ports.copies[k].channel = c

\* C22 witness: a stereo input-output bus whose first channel is processed
\* in place and whose second channel came in a separate input buffer: one
\* copy, of the second channel
InOutCopiedUnlessInPlaceWitness ==
    /\ PortsRan
    /\ ports.frames = 1
    /\ ports.same = <<TRUE, FALSE>>
    /\ ports.copies = <<[bus |-> 0, channel |-> 2, len |-> 1]>>

(* ---- properties of the Wrapper's two dirty sets ---- *)
\* some bit of set r is cleared by the step
ClearsBitOf(r) == \E i \in Idx : param_states[r][i] /\ ~param_states'[r][i]

\* the step is one of the audio thread's drain in process
AudioDrainStep ==
    /\ wAudio.op = "process" /\ CurStep(wAudio) = "drain"
    /\ wAudio' # wAudio /\ wMain' = wMain

\* the step is one of the editor's poll_params drain
EditorDrainStep ==
    /\ wMain.op = "poll_params" /\ CurStep(wMain) = "drain"
    /\ wMain' # wMain /\ wAudio' = wAudio

\* C19: the two dirty sets are independent.  A bit of dirty_processor is
\* cleared only by a step of the audio thread's drain in process, a bit of
\* dirty_editor only by a step of the editor's poll_params drain, and a
\* drain step of one set leaves every bit of the other set as it was.
DirtySetsIndependent ==
    [][ /\ ClearsBitOf("processor") => AudioDrainStep
        /\ ClearsBitOf("editor") => EditorDrainStep
        /\ AudioDrainStep => param_states'["editor"] = param_states["editor"]
        /\ EditorDrainStep => param_states'["processor"] = param_states["processor"] ]_vars

\* C19 witness: the audio thread's drain has cleared and yielded index 1,
\* which is still pending for the editor, whose own drain is under way on
\* the main thread
DirtySetsIndependentWitness ==
    /\ whist.yieldsSince["processor"][1] > 0
    /\ ~param_states["processor"][1]
    /\ param_states["editor"][1]
    /\ wMain.op = "poll_params" /\ wMain.cur = 1

(* ---- a plugin with a side-chain input: scratch storage ---- *)
\* bus_config_list.get_default() of a plugin whose P::buses() has two
\* input buses (main and side chain) and one output bus
SidechainConfig == [inputs |-> <<2, 2>>, outputs |-> <<2>>]

\* channelBuffers32 of a stereo bus: two of the host's first two buffers
StereoLists == [1 .. 2 -> 1 .. 2]

\* the bus buffers a host may pass for two stereo buses
HostBusPairs == {<<a, b>> : a \in StereoLists, b \in StereoLists}

\* the ProcessData a host may pass to that plugin: both input buses or
\* none, and the output bus
SidechainData ==
    [numSamples : 0 .. processor_state.max_buffer_size,
     inputs : {<<>>} \cup HostBusPairs, outputs : {<<chs>> : chs \in StereoLists}]

\* a host that enables and disables buses only while the plugin is inactive
NextScratch ==
    \/ /\ ~wActive
       /\ \E dir \in {"inputs", "outputs"}, index \in 0 .. 2, state \in BOOLEAN :
             ActivateBus(dir, index, state)
    \/ \E maxSamplesPerBlock \in 1 .. MaxBufferSize : SetupProcessing(maxSamplesPerBlock)
    \/ \E state \in BOOLEAN : SetActive(state)
    \/ WrapProcessNotInitialized
    \/ \E data \in SidechainData, junk \in JunkVals : RouteProcess(data, junk)
    \/ RouteReturn

\* the channel-range table `indices` has one entry per bus of `states`, the
\* ranges follow each other from channel 0, a disabled bus has an empty
\* range, an enabled one the channels of its format, and the last range
\* ends at `total`
RangesFollowBuses(indices, states, total) ==
    /\ Len(indices) = Len(states)
    /\ \A k \in 1 .. Len(states) :
          /\ indices[k][1] = IF k = 1 THEN 0 ELSE indices[k - 1][2]
          /\ indices[k][2] - indices[k][1] =
                IF states[k].enabled THEN states[k].format ELSE 0
    /\ total = IF indices = <<>> THEN 0 ELSE indices[Len(indices)][2]

\* the channel counts the host passed for the enabled buses, added up
RECURSIVE EnabledChannels(_, _)
EnabledChannels(counts, states) ==
    IF counts = <<>> \/ states = <<>> THEN 0
    ELSE (IF Head(states).enabled THEN Head(counts) ELSE 0)
         + EnabledChannels(Tail(counts), Tail(states))

\* C21: a bus disabled by the host keeps its bus index.  After activation
\* the channel-range tables have an entry for every bus, empty for a
\* disabled one, contiguous and ending at the total channel count; and in
\* an accepted block of at least one sample the channel pointers gathered
\* are those of the enabled buses only.
DisabledBusKeepsIndex ==
    /\ wActive =>
          /\ RangesFollowBuses(processor_state.input_indices, bus_states.inputs,
                               processor_state.input_channels)
          /\ RangesFollowBuses(processor_state.output_indices, bus_states.outputs,
                               processor_state.output_channels)
    /\ (view.result = "kResultOk" /\ view.samples > 0) =>
          /\ Len(view.host_inputs) = processor_state.input_channels
          /\ Len(view.host_outputs) = processor_state.output_channels
          /\ Len(view.host_inputs) = EnabledChannels(view.in_buses, bus_states.inputs)
          /\ Len(view.host_outputs) = EnabledChannels(view.out_buses, bus_states.outputs)
          /\ Len(view.input_ptrs) = processor_state.input_channels

\* C21 witness: the first input bus is disabled and the second enabled;
\* the host passed two channels for each and the block was accepted with
\* the second bus's two pointers
DisabledBusKeepsIndexWitness ==
    /\ wActive
    /\ ~bus_states.inputs[1].enabled /\ bus_states.inputs[2].enabled
    /\ processor_state.input_indices = <<<<0, 0>>, <<0, 2>>>>
    /\ view.result = "kResultOk" /\ view.samples > 0
    /\ view.in_buses = <<2, 2>>
    /\ Len(view.host_inputs) = 2

\* C18 as stated: in every process call of an active session whose block
\* is no longer than the max block length, whatever input pointers alias
\* output pointers, the samples copied into scratch storage fit in the
\* capacity reserved at activation, max block length x min(input
\* channels, output channels), and the copy does not reallocate.
ScratchNeverGrows ==
    (view.result = "kResultOk" /\ view.samples <= processor_state.max_buffer_size) =>
       /\ ~view.grew
       /\ view.scratch_len <=
              ScratchBufferSize(processor_state.max_buffer_size,
                                processor_state.input_channels,
                                processor_state.output_channels)

(* ---- properties of the events handed to the processor ---- *)
\* processor.process of the Component is running on block.events
BlockRan == block.op = "process" /\ block.result = "kResultOk"

\* C14 as stated: the event list handed to the processor in every block is
\* ordered by non-decreasing offset, events of equal offset in arrival
\* order, whatever the order of the host's parameter queues.
EventsOrdered ==
    BlockRan =>
       \A j \in 1 .. Len(block.events), k \in 1 .. Len(block.events) :
          j < k => \/ block.events[j].time < block.events[k].time
                   \/ /\ block.events[j].time = block.events[k].time
                      /\ block.events[j].value < block.events[k].value

\* the events pushed to process_state.events in the returning call: the
\* points listed one by one and the repeats of the last
EventsPushed == Len(block.events) + block.repeats

\* C23 as stated: process never allocates to hold events: the number of
\* events collected in one process call never exceeds the capacity of the
\* event buffer reserved at construction, for every number of points the
\* host may send in a block.
EventsFitCapacity == BlockRan => EventsPushed <= EventsCapacity

\* the host's parameter changes of the returning process call hold a point
\* whose offset lies outside the block
OffsetOutsideBlock ==
    \E q \in 1 .. Len(block.changes) :
       \E k \in 1 .. Len(block.changes[q].offsets) :
          \/ block.changes[q].offsets[k] < 0
          \/ block.changes[q].offsets[k] >= block.samples

\* C15 as stated: every event delivered to the processor in a block of N
\* samples has 0 <= offset < N, and a process call whose parameter changes
\* hold an offset outside the block is rejected: the processor does not run
\* and none of the call's changes is applied.
OffsetsInBlock ==
    /\ BlockRan =>
          \A j \in 1 .. Len(block.events) :
             block.events[j].time >= 0 /\ block.events[j].time < block.samples
    /\ (block.op = "process" /\ OffsetOutsideBlock) =>
          block.result # "kResultOk" /\ block.events = <<>>

(* ---- properties of a state load ---- *)
\* the pairs a poll yields when every index is pending: each index once,
\* in index order, with its value
EveryIndexOnce(values) == [k \in 1 .. NParams |-> <<k - 1, values[k - 1]>>]

\* a successful state load is returning
LoadReturned(op) == block.op = op /\ block.result = "kResultOk"

RECURSIVE OffsetSeqs(_, _, _)
OffsetSeqs(n, len, lo) ==
    IF len = 0 THEN {<<>>}
    ELSE UNION {{<<o>> \o rest : rest \in OffsetSeqs(n, len - 1, o)} :
                  o \in lo .. (n - 1)}

Timelines(n) ==
    UNION {{[k \in 1 .. len |-> [offset |-> offs[k], value |-> k]] :
              offs \in OffsetSeqs(n, len, 0)} : len \in 0 .. MaxEvents}

\* (mutant) an iterator over an empty block that is finished from the start
SplitAtEventsEmptyDone(n, tl) ==
    [len |-> n, events |-> tl, time |-> 0, k |-> 1, done |-> n = 0]

\* buffer.split_at_events(events): the iterator before its first pair
SplitAtEvents(n, tl) ==
    [len |-> n, events |-> tl, time |-> 0, k |-> 1, done |-> FALSE]

\* index of the last event, from index k on, whose offset is t (k - 1 if
\* the event at k has another offset or there is none)
RECURSIVE LastAt(_, _, _)
LastAt(tl, k, t) ==
    IF k <= Len(tl) /\ tl[k].offset = t THEN LastAt(tl, k + 1, t) ELSE k - 1

\* the pair the iterator yields next: the sub-buffer from the current time
\* to the offset of the next later event (the end of the block if there is
\* none), with the events at the current time
SplitPair(it) ==
    LET last == LastAt(it.events, it.k, it.time)
    IN  [start |-> it.time,
         end |-> IF last < Len(it.events) THEN it.events[last + 1].offset
                 ELSE it.len,
         first |-> it.k,
         last |-> last]

\* the iterator after it yielded that pair
SplitAdvance(it) ==
    LET pair == SplitPair(it)
    IN  [it EXCEPT !.time = pair.end, !.k = pair.last + 1,
                   !.done = pair.last = Len(it.events)]

\* (mutant) the loop over a pair's events stops after the first one
EventsOfFirstOnly(pair) ==
    IF pair.first <= pair.last THEN <<pair.first>> ELSE <<>>

\* `for event in events`: the indices in the timeline of the pair's events
EventsOf(pair) == [j \in 1 .. (pair.last - pair.first + 1) |-> pair.first + j - 1]

\* (mutant) the loop over a sub-buffer's samples skips its first sample
SamplesOfSkipFirst(pair) == (pair.start + 2) .. pair.end

\* `for sample in buffer.samples()`: the samples of the pair's sub-buffer,
\* numbered from 1
SamplesOf(pair) == (pair.start + 1) .. pair.end

NoPair == [start |-> 0, end |-> 0, first |-> 1, last |-> 0]

\* GainProcessor after Processor::create, before its first block
SplitInit ==
    /\ gain = 0
    /\ buffer = <<>>
    /\ timeline = <<>>
    /\ iter = SplitAtEvents(0, <<>>)
    /\ gpos = [pc |-> "idle", pair |-> NoPair, ek |-> 0]
    /\ gcalls = 0
    /\ ghist = [yielded |-> <<>>, applied |-> <<>>]

\* GainProcessor::process is called with a block of n samples and its events
GainProcess(n, tl) ==
    /\ gpos.pc = "idle" /\ gcalls < MaxBlocks
    /\ buffer' = [s \in 1 .. n |-> <<>>]
    /\ timeline' = tl
    /\ iter' = SplitAtEvents(n, tl)
    /\ gpos' = [pc |-> "next", pair |-> NoPair, ek |-> 0]
    /\ gcalls' = gcalls + 1
    /\ ghist' = [yielded |-> <<>>, applied |-> <<>>]
    /\ UNCHANGED <<gain, chanVars, wrapVars, routeVars, layoutVars, compVars>>

\* head of the outer for loop: the iterator yields its next pair, or the
\* loop ends and process returns
GainNext ==
    /\ gpos.pc = "next"
    /\ IF iter.done
       THEN /\ gpos' = [pc |-> "idle", pair |-> NoPair, ek |-> 0]
            /\ UNCHANGED <<iter, ghist>>
       ELSE /\ gpos' = [pc |-> "events", pair |-> SplitPair(iter), ek |-> 1]
            /\ iter' = SplitAdvance(iter)
            /\ ghist' = [ghist EXCEPT !.yielded = Append(@, SplitPair(iter))]
    /\ UNCHANGED <<gain, buffer, timeline, gcalls, chanVars, wrapVars, routeVars, layoutVars, compVars>>

\* body of `for event in events`: self.params.set_param(id, value)
GainSetParam ==
    /\ gpos.pc = "events" /\ gpos.ek <= Len(EventsOf(gpos.pair))
    /\ LET k == EventsOf(gpos.pair)[gpos.ek]
       IN  /\ gain' = timeline[k].value
           /\ ghist' = [ghist EXCEPT
                          !.applied = Append(@, [k |-> k, at |-> gpos.pair.start])]
    /\ gpos' = [gpos EXCEPT !.ek = @ + 1]
    /\ UNCHANGED <<buffer, timeline, iter, gcalls, chanVars, wrapVars, routeVars, layoutVars, compVars>>

\* `for sample in buffer.samples()`: every channel of every sample of the
\* sub-buffer is multiplied by the gain
GainSamples ==
    /\ gpos.pc = "events" /\ gpos.ek > Len(EventsOf(gpos.pair))
    /\ buffer' = [s \in 1 .. Len(buffer) |->
                    IF s \in SamplesOf(gpos.pair) THEN Append(buffer[s], gain)
                    ELSE buffer[s]]
    /\ gpos' = [gpos EXCEPT !.pc = "next"]
    /\ UNCHANGED <<gain, timeline, iter, gcalls, ghist, chanVars, wrapVars, routeVars, layoutVars, compVars>>

NextSplit ==
    \/ \E n \in 0 .. MaxBlockLen : \E tl \in Timelines(n) : GainProcess(n, tl)
    \/ GainNext
    \/ GainSetParam
    \/ GainSamples

\* GainProcessor::process has returned from a block
GainReturned == gpos.pc = "idle" /\ gcalls > 0

\* C5: split_at_events partitions the block.  At no time is a sample covered
\* twice, and once the loop over the pairs has ended the yielded sub-buffers
\* are consecutive ranges, the first starting at sample 0 and the last
\* ending at N, and every sample of [0, N) was covered exactly once.
SplitPartitions ==
    /\ \A s \in 1 .. Len(buffer) : Len(buffer[s]) <= 1
    /\ GainReturned =>
          LET y == ghist.yielded
          IN  /\ Len(y) >= 1
              /\ y[1].start = 0
              /\ y[Len(y)].end = Len(buffer)
              /\ \A j \in 1 .. Len(y) : y[j].start <= y[j].end
              /\ \A j \in 1 .. (Len(y) - 1) : y[j + 1].start = y[j].end
              /\ \A s \in 1 .. Len(buffer) : Len(buffer[s]) = 1

\* a block of 3 samples was split into three sub-buffers
SplitPartitionsWitness ==
    /\ GainReturned /\ Len(buffer) = 3
    /\ Len(ghist.yielded) = 3
    /\ ghist.yielded[2] = [start |-> 1, end |-> 2, first |-> 2, last |-> 2]

\* C6: every event is delivered exactly once and at its own offset.  Once
\* the loop has ended, the events applied are the events of the timeline,
\* each once and in timeline order, each with the pair whose sub-buffer
\* starts at the event's offset; the events of a pair are all the events at
\* its start; and every sub-buffer after the first starts at the offset of
\* an event.
SplitDeliversEvents ==
    GainReturned =>
       LET y == ghist.yielded
       IN  /\ ghist.applied =
                 [k \in 1 .. Len(timeline) |-> [k |-> k, at |-> timeline[k].offset]]
           /\ \A j \in 1 .. Len(y) :
                 {k \in 1 .. Len(timeline) : timeline[k].offset = y[j].start}
                    = y[j].first .. y[j].last
           /\ \A j \in 2 .. Len(y) :
                 \E k \in 1 .. Len(timeline) : timeline[k].offset = y[j].start

\* offsets [0, 1, 1, 2] in a block of 3: [0,1) with one event, [1,2) with
\* two, [2,3) with one
SplitDeliversEventsWitness ==
    /\ GainReturned /\ Len(buffer) = 3
    /\ [k \in 1 .. Len(timeline) |-> timeline[k].offset] = <<0, 1, 1, 2>>
    /\ ghist.yielded = <<[start |-> 0, end |-> 1, first |-> 1, last |-> 1],
                         [start |-> 1, end |-> 2, first |-> 2, last |-> 3],
                         [start |-> 2, end |-> 3, first |-> 4, last |-> 4]>>
    /\ Len(ghist.applied) = 4

\* C7: a timeline with zero events yields exactly one pair, the whole block
\* [0, N) with no events.
SplitNoEvents ==
    (GainReturned /\ timeline = <<>>) =>
       ghist.yielded = <<[start |-> 0, end |-> Len(buffer), first |-> 1, last |-> 0]>>

\* a block of 3 samples without events was processed as one sub-buffer
SplitNoEventsWitness ==
    /\ GainReturned /\ timeline = <<>> /\ Len(buffer) = 3
    /\ Len(ghist.yielded) = 1
    /\ \A s \in 1 .. 3 : Len(buffer[s]) = 1

(* ---- properties of layout resolution ---- *)
\* the speaker arrangement that stands for a Format (vst3/component.rs)
\* and for a BusFormat (vst3.rs)
ArrangementOf(format) == IF format = "Mono" THEN "kMono" ELSE "kStereo"
ArrangementOfBusFormat(bus_format) == "kStereo"

\* the arrangements of the call r are, bus by bus, arrs_in for the input
\* buses and arrs_out for the output buses
NamesFormats(r, arrs_in, arrs_out) == r.inputs = arrs_in /\ r.outputs = arrs_out

\* the arrangements of the formats a layout gives to the buses of a bus map
FormatsOf(layout, bus_map) ==
    [k \in 1 .. Len(bus_map) |-> ArrangementOf(layout[bus_map[k] + 1])]

\* the arrangements of the formats of a list of bus formats
BusFormatsOf(formats) ==
    [k \in 1 .. Len(formats) |-> ArrangementOfBusFormat(formats[k])]

\* the candidate of the call r is a member of the Layout Set, as a whole
InLayoutSet(r) ==
    CASE r.op = "Component::setBusArrangements" ->
            \E layout \in {InfoLayouts[k] : k \in 1 .. Len(InfoLayouts)} :
               NamesFormats(r, FormatsOf(layout, InputBusMap),
                            FormatsOf(layout, OutputBusMap))
      [] r.op = "Wrapper::setBusArrangements" ->
            \E config \in BusConfigSet :
               NamesFormats(r, BusFormatsOf(config.inputs), BusFormatsOf(config.outputs))
      [] r.op = "select" -> r.config_id < Len(InfoLayouts)

\* what the bus arrangement, channel count and port queries return
LayoutQueries ==
    [dir \in {"In", "Out"}, index \in 0 .. Len(InfoBuses) |->
       <<ComponentGetBusArrangement(config_layout, dir, index),
         ComponentGetBusInfo(config_layout, dir, index),
         GetBusArrangement(IF dir = "In" THEN "inputs" ELSE "outputs", index),
         GetBusInfo(IF dir = "In" THEN "inputs" ELSE "outputs", index),
         AudioPortsGet(layout_index, dir, index)>>]

\* a resolve call begins to return in this step
ResolveCalled == reply.op = "none" /\ reply'.op # "none"

\* C11: layout resolution failure is side-effect free.  A resolve call
\* (setBusArrangements of the Component or the Wrapper, select of the CLAP
\* instance) whose candidate is not in the Layout Set returns a failure and
\* leaves the active layout, and with it the answer of every later bus
\* arrangement, channel count and port query, as it was before the call.
ResolveFailureNoEffect ==
    [][(ResolveCalled /\ ~InLayoutSet(reply')) =>
          /\ reply'.result \in {"kResultFalse", "kInvalidArgument", "Err"}
          /\ config_layout' = config_layout
          /\ bus_states' = bus_states
          /\ layout_index' = layout_index
          /\ LayoutQueries' = LayoutQueries]_vars

\* the Component, holding the layout (Mono, Mono) it resolved earlier, has
\* rejected a candidate with an arrangement it does not know
ResolveFailureNoEffectWitness ==
    /\ reply.op = "Component::setBusArrangements"
    /\ reply.inputs = <<"kStereo", "k51">> /\ reply.outputs = <<"kStereo">>
    /\ reply.result = "kResultFalse"
    /\ config_layout = <<"Mono", "Mono">>
    /\ layout_index = 1

\* C12: layout resolution succeeds exactly for members of the Layout Set.
\* setBusArrangements returns kResultTrue if and only if the candidate built
\* from the host's arrangements equals, over all buses at once, a declared
\* layout, and then the active layout is that candidate.
ResolveExactMembership ==
    [][(ResolveCalled /\ reply'.op # "select") =>
          /\ reply'.result = "kResultTrue" <=> InLayoutSet(reply')
          /\ reply'.result = "kResultTrue" =>
                IF reply'.op = "Component::setBusArrangements"
                THEN /\ Len(config_layout') = Len(InfoBuses)
                     /\ NamesFormats(reply', FormatsOf(config_layout', InputBusMap),
                                     FormatsOf(config_layout', OutputBusMap))
                ELSE NamesFormats(reply',
                        BusFormatsOf([k \in 1 .. Len(bus_states'.inputs) |->
                                        bus_states'.inputs[k].format]),
                        BusFormatsOf([k \in 1 .. Len(bus_states'.outputs) |->
                                        bus_states'.outputs[k].format]))]_vars

\* the Component has rejected (Mono, Stereo): each bus has that format in
\* some declared layout, the combination is none of them
ResolveExactMembershipWitness ==
    /\ reply.op = "Component::setBusArrangements"
    /\ reply.inputs = <<"kMono", "kStereo">> /\ reply.outputs = <<"kMono">>
    /\ reply.result = "kResultFalse"
    /\ config_layout = <<"Stereo", "Mono">>

(* --------------------------- specifications ---------------------------- *)
\* the state after construction of every modelled object
Init ==
    /\ ChanInit
    /\ WrapInit
    /\ RouteInit
    /\ SplitInit
    /\ LayoutInit
    /\ ComponentInit

\* the CLAP instance's Parameter Channel
SpecChan == Init /\ [][NextChan]_vars

\* the VST3 wrapper's parameter flow
SpecWrap == Init /\ [][NextWrap]_vars

\* layout resolution of the Component, the Wrapper and the CLAP instance
SpecLayout == Init /\ [][NextLayout]_vars

\* the handlers of the Component
SpecComponent == Init /\ [][NextComponent]_vars

\* the Component and the CLAP instance, activation and reset
SpecLife == Init /\ [][NextLife]_vars

\* a CLAP instance of a plugin with one parameter, of any ParamInfo
ParamInit ==
    /\ ChanInit /\ WrapInit /\ RouteInit /\ SplitInit /\ LayoutInit
    /\ editor_params = [i \in Idx |-> 0]
    /\ block = NoBlock
    /\ LifeInit
    /\ param \in ParamInfos
    /\ param_value = param.default
    /\ told = NoTold
    /\ WithThreads(1)
    /\ ApplicationOpen

SpecParam == ParamInit /\ [][NextMap]_vars

\* a host that calls activateBus, setBusArrangements, setupProcessing,
\* setActive and process in any order, one call at a time
NextBuses ==
    \/ \E dir \in {"inputs", "outputs"}, index \in 0 .. 1, state \in BOOLEAN :
          ActivateBus(dir, index, state)
    \/ \E ins \in HostArrangements, outs \in HostArrangements :
          SetBusArrangements(ins, outs)
    \/ ReplyReturn
    \/ \E maxSamplesPerBlock \in 1 .. MaxBufferSize : SetupProcessing(maxSamplesPerBlock)
    \/ \E state \in BOOLEAN : SetActive(state)
    \/ WrapProcessNotInitialized
    \/ \E data \in ProcessData, junk \in JunkVals : RouteProcess(data, junk)
    \/ RouteReturn

\* a pool of any number of worker threads
PoolInit ==
    /\ ChanInit /\ WrapInit /\ RouteInit /\ SplitInit /\ LayoutInit
    /\ editor_params = [i \in Idx |-> 0]
    /\ block = NoBlock
    /\ LifeInit
    /\ MapInit
    /\ \E num_threads \in 1 .. MaxThreads : WithThreads(num_threads)
    /\ ApplicationOpen

SpecPool == PoolInit /\ [][NextPool]_vars

\* the operating system schedules every thread that can take a step: each
\* worker and the owner of the pool
SpecPoolFair ==
    /\ PoolInit /\ [][NextPool]_vars
    /\ \A w \in 1 .. MaxThreads : WF_vars(Worker(w))
    /\ WF_vars(Owner)

\* an open X11 application and its windows
SpecWindow == Init /\ [][NextWindow]_vars

\* the VST3 wrapper's buses and buffers
SpecRoute == Init /\ [][NextRoute]_vars

\* Wrapper::new for that plugin
SidechainInit ==
    /\ ChanInit /\ WrapInit /\ SplitInit /\ LayoutInit /\ ComponentInit
    /\ bus_states = [inputs |-> [k \in 1 .. Len(SidechainConfig.inputs) |->
                                   BusStateNew(SidechainConfig.inputs[k])],
                     outputs |-> [k \in 1 .. Len(SidechainConfig.outputs) |->
                                   BusStateNew(SidechainConfig.outputs[k])]]
    /\ processor_state = [max_buffer_size |-> 0, input_channels |-> 0,
                          input_indices |-> <<>>, output_channels |-> 0,
                          output_indices |-> <<>>, scratch_capacity |-> 0]
    /\ view = NoView
    /\ reply = NoReply

SpecScratch == SidechainInit /\ [][NextScratch]_vars

\* the VST3 wrapper under that host
SpecBuses == Init /\ [][NextBuses]_vars

\* the gain example's process over split_at_events
SpecSplit == Init /\ [][NextSplit]_vars

====
